---- MODULE Spec2Model ----
(***************************************************************************)
(* A model of endive's persistence layer (db.JSONDB), search index         *)
(* (index.Index) and metadata normalisation (book.Metadata).               *)
(***************************************************************************)
EXTENDS Integers, Sequences, FiniteSets, TLC

(***************************************************************************)
(* Bounds of the model.                                                    *)
(***************************************************************************)
\* number of distinct book ids (full paths) the host collection may use
NumIds == 4
\* the most books a collection handed to the JSON database holds
MaxBooks == 2
\* the most books a collection holds when two writers save at once
MaxWriterBooks == 1

Ids == 1..NumIds
\* The field values of a record.  The index code never inspects a document,
\* it only stores, replaces and removes it, so two values are enough to tell
\* a current document from a stale one.
Revs == {"r1", "r2"}
\* "no entry under this key" in a map keyed by id
NoDoc == "none"
BookMaps == [Ids -> {NoDoc} \cup Revs]
EmptyMap == [k \in Ids |-> NoDoc]
Keys(m) == {k \in Ids : m[k] # NoDoc}

VARIABLES
    \* ---- index.Index and its host ----
    coll,       \* the host's collection: id -> revision of the record's fields
    idx,        \* the bleve index at Index.Path: id -> indexed document
    idxExists,  \* whether index storage exists at Index.Path
    upc,        \* position of the running Index.Update
    newB, modB, delB,   \* the arguments of the running Update
    pending,    \* keys of the map the current add/delete loop has still to visit
    doneDel,    \* ids on which index.Delete has run in this Update
    doneAdd,    \* ids on which index.Index has run in this Update
    prior,      \* the index content when the running Update or Rebuild was called
    uerr,       \* what the last Update returned: "none" (not called), "nil", "err"
    qres, qerr  \* what the last Query returned

ixvars == <<coll, idx, idxExists, upc, newB, modB, delB, pending, doneDel,
            doneAdd, prior, uerr, qres, qerr>>

VARIABLES
    \* ---- db.JSONDB and its host, one writer ----
    disk,       \* the file system: file name -> missing, unreadable or its bytes
    books,      \* the host's in-memory endive.Collection
    saved,      \* file name -> the file holds a successful Save of `books`, untouched since
    res         \* what the last call on the database did and returned

dbvars == <<disk, books, saved, res>>

VARIABLES
    \* ---- db.JSONDB.Save called by two writers on one path ----
    snap,       \* the snapshot file at the path both stores name
    hostLock,   \* whether the host serializes the calls of Save (spec section 5)
    holder,     \* the writer inside the host's critical section, or "nobody"
    wpc,        \* writer -> its position in Save
    wbks,       \* writer -> the collection it is saving
    jsonToSave, \* writer -> the local of that name
    jsonInDB,   \* writer -> the local of that name
    ret         \* the Save that has just returned: who, what it saved, what it returned

cvars == <<snap, hostLock, holder, wpc, wbks, jsonToSave, jsonInDB, ret>>

VARIABLES
    md,         \* the Metadata record being normalised
    cfg,        \* the alias configuration (e.Config) handed to Clean
    ncleans,    \* how many times Clean has run on md
    prevmd      \* md as it was before the last Clean

mvars == <<md, cfg, ncleans, prevmd>>

VARIABLES
    arg,        \* the argument of the function or method under study
    out         \* the results of its successive calls, oldest first

pvars == <<arg, out>>

VARIABLES
    other,      \* the record md is merged with
    call,       \* the last call on md: its arguments and what it returned
    nops        \* how many calls have been made on md

gvars == <<other, call, nops>>

VARIABLES
    spc,        \* position of SearchOnline: "idle", in its loop, "returned"
    fields,     \* the fields SearchOnline is asked to merge (none: all of them)
    errs,       \* the local of that name: the invalid choices so far
    choice,     \* the last input read by the loop
    merged,     \* how many times SearchOnline has merged the record
    sret        \* what SearchOnline returned

svars == <<spc, fields, errs, choice, merged, sret>>

vars == <<ixvars, dbvars, cvars, mvars, pvars, gvars, svars>>

(***************************************************************************)
(* index.Index                                                             *)
(***************************************************************************)
\* NOTE: second argument of NewSearchRequestOptions is max number of hits
MaxHits == 1000

\* Index.open: bleve.Open, and bleve.New when the path does not exist.
\* Returns <<storage exists afterwards, isNew>>.
open(exists) == <<TRUE, ~exists>>

\* A slip in Update: the books are added before the old documents are deleted.
Phases_AddFirst == <<"addNew", "addMod", "delDel", "delMod">>
\* The phases of Update, in the order of its four calls.
Phases == <<"delDel", "delMod", "addNew", "addMod">>
\* A slip in Update: the second delete is handed delB again, not modB.
PhaseMap_DelTwice(p, n, m, d) ==
    CASE p = "delDel" -> d
      [] p = "delMod" -> d
      [] p = "addNew" -> n
      [] p = "addMod" -> m
\* A slip in Update: the second add is handed newB again, not modB.
PhaseMap_AddTwice(p, n, m, d) ==
    CASE p = "delDel" -> d
      [] p = "delMod" -> m
      [] p = "addNew" -> n
      [] p = "addMod" -> n
PhaseMap(p, n, m, d) ==
    CASE p = "delDel" -> d
      [] p = "delMod" -> m
      [] p = "addNew" -> n
      [] p = "addMod" -> m
PhaseIsDelete(p) == p \in {"delDel", "delMod"}

\* The position after phase number i has returned nil: the first later phase
\* whose map has a key to visit, or the return of Update.
RECURSIVE AfterPhase(_, _, _, _)
AfterPhase(i, n, m, d) ==
    IF i >= Len(Phases) THEN "done"
    ELSE IF Keys(PhaseMap(Phases[i + 1], n, m, d)) # {} THEN Phases[i + 1]
    ELSE AfterPhase(i + 1, n, m, d)

PhaseNo(p) == CHOOSE i \in 1..Len(Phases) : Phases[i] = p

\* bleve: index.Delete(k) removes the document stored under k, if any.
IndexDelete(ix, k) == [ix EXCEPT ![k] = NoDoc]
\* bleve: index.Index(k, v) stores v under k, replacing any document under k.
IndexIndex(ix, k, v) == [ix EXCEPT ![k] = v]

\* The host: the collection changes from coll to c, and Update is called
\* with the exact diff of the two.
DiffNew(old, c) == [k \in Ids |-> IF old[k] = NoDoc /\ c[k] # NoDoc THEN c[k] ELSE NoDoc]
DiffMod(old, c) == [k \in Ids |-> IF old[k] # NoDoc /\ c[k] # NoDoc /\ old[k] # c[k]
                                   THEN c[k] ELSE NoDoc]
DiffDel(old, c) == [k \in Ids |-> IF old[k] # NoDoc /\ c[k] = NoDoc THEN old[k] ELSE NoDoc]

\* Index.Update is entered: the first delete opens (and creates) the index.
Update(n, m, d) ==
    /\ upc = "idle"
    /\ newB' = n /\ modB' = m /\ delB' = d
    /\ prior' = idx
    /\ idxExists' = open(idxExists)[1]
    /\ doneDel' = {} /\ doneAdd' = {}
    /\ LET p == AfterPhase(0, n, m, d) IN
         /\ upc' = p
         /\ pending' = IF p = "done" THEN {} ELSE Keys(PhaseMap(p, n, m, d))
         /\ uerr' = IF p = "done" THEN "nil" ELSE "none"
    /\ qres' = {} /\ qerr' = "none"
    /\ UNCHANGED <<idx, dbvars, cvars, mvars, pvars, gvars, svars>>

HostUpdate ==
    \E c \in BookMaps :
        /\ coll' = c
        /\ Update(DiffNew(coll, c), DiffMod(coll, c), DiffDel(coll, c))

\* One iteration of the loop of Index.delete: index.Delete(k) for some key
\* of the map (Go visits the keys of a map in no fixed order).
DeleteStep ==
    /\ PhaseIsDelete(upc)
    /\ \E k \in pending :
        \/ /\ idx' = IndexDelete(idx, k)
           /\ doneDel' = doneDel \cup {k}
           /\ IF pending = {k}
              THEN LET p == AfterPhase(PhaseNo(upc), newB, modB, delB) IN
                     /\ upc' = p
                     /\ pending' = IF p = "done" THEN {} ELSE Keys(PhaseMap(p, newB, modB, delB))
                     /\ uerr' = IF p = "done" THEN "nil" ELSE uerr
              ELSE /\ pending' = pending \ {k}
                   /\ UNCHANGED <<upc, uerr>>
        \/ \* index.Delete fails: delete returns the error, and so does Update
           /\ upc' = "failed" /\ uerr' = "err" /\ pending' = {}
           /\ UNCHANGED <<idx, doneDel>>
    /\ UNCHANGED <<coll, idxExists, newB, modB, delB, doneAdd, prior, qres, qerr, dbvars, cvars, mvars, pvars, gvars, svars>>

\* A slip in Update: a failed add puts the index back as it was at the call.
AddStep_Undo ==
    /\ upc \in {"addNew", "addMod"}
    /\ \E k \in pending :
        \/ /\ idx' = IndexIndex(idx, k, PhaseMap(upc, newB, modB, delB)[k])
           /\ doneAdd' = doneAdd \cup {k}
           /\ IF pending = {k}
              THEN LET p == AfterPhase(PhaseNo(upc), newB, modB, delB) IN
                     /\ upc' = p
                     /\ pending' = IF p = "done" THEN {} ELSE Keys(PhaseMap(p, newB, modB, delB))
                     /\ uerr' = IF p = "done" THEN "nil" ELSE uerr
              ELSE /\ pending' = pending \ {k}
                   /\ UNCHANGED <<upc, uerr>>
        \/ \* index.Index fails
           /\ upc' = "failed" /\ uerr' = "err" /\ pending' = {}
           /\ idx' = prior
           /\ UNCHANGED doneAdd
    /\ UNCHANGED <<coll, idxExists, newB, modB, delB, doneDel, prior, qres, qerr, dbvars, cvars, mvars, pvars, gvars, svars>>

\* One iteration of the loop of Index.add: index.Index(k, v).
AddStep ==
    /\ upc \in {"addNew", "addMod"}
    /\ \E k \in pending :
        \/ /\ idx' = IndexIndex(idx, k, PhaseMap(upc, newB, modB, delB)[k])
           /\ doneAdd' = doneAdd \cup {k}
           /\ IF pending = {k}
              THEN LET p == AfterPhase(PhaseNo(upc), newB, modB, delB) IN
                     /\ upc' = p
                     /\ pending' = IF p = "done" THEN {} ELSE Keys(PhaseMap(p, newB, modB, delB))
                     /\ uerr' = IF p = "done" THEN "nil" ELSE uerr
              ELSE /\ pending' = pending \ {k}
                   /\ UNCHANGED <<upc, uerr>>
        \/ \* index.Index fails: add returns the error, and so does Update
           /\ upc' = "failed" /\ uerr' = "err" /\ pending' = {}
           /\ UNCHANGED <<idx, doneAdd>>
    /\ UNCHANGED <<coll, idxExists, newB, modB, delB, doneDel, prior, qres, qerr, dbvars, cvars, mvars, pvars, gvars, svars>>

\* Update returns to its caller: its arguments and locals are gone.
UpdateReturn ==
    /\ upc = "done"
    /\ upc' = "idle"
    /\ newB' = EmptyMap /\ modB' = EmptyMap /\ delB' = EmptyMap
    /\ doneDel' = {} /\ doneAdd' = {} /\ prior' = EmptyMap
    /\ UNCHANGED <<coll, idx, idxExists, pending, uerr, qres, qerr, dbvars, cvars, mvars, pvars, gvars, svars>>

\* bleve's search, for a query that matches the documents of revision q
\* (q = NoDoc: a query every document matches).
Matches(ix, q) == {k \in Ids : ix[k] # NoDoc /\ (q = NoDoc \/ ix[k] = q)}

\* Index.Query
Query ==
    /\ upc = "idle"
    /\ \E q \in {NoDoc} \cup Revs :
        LET o == open(idxExists) IN
        /\ idxExists' = o[1]
        /\ IF o[2]
           THEN qres' = {} /\ qerr' = "Could not open index"
           ELSE /\ qerr' = "nil"
                /\ \E hits \in SUBSET Matches(idx, q) :
                     /\ Cardinality(hits) = IF Cardinality(Matches(idx, q)) > MaxHits
                                            THEN MaxHits ELSE Cardinality(Matches(idx, q))
                     /\ qres' = hits
    /\ UNCHANGED <<coll, idx, upc, newB, modB, delB, pending, doneDel, doneAdd, prior, uerr, dbvars, cvars, mvars, pvars, gvars, svars>>

(***************************************************************************)
(* db.JSONDB                                                               *)
(***************************************************************************)
\* The files a store's path may name: the database and a second one
\* (test/endive.json and test/db2.json in TestLdbSave).
Files == {"db", "db2"}
\* The records of a collection, by content.
BookRecs == {"a", "b"}
RECURSIVE SeqsUpTo(_, _)
SeqsUpTo(S, n) ==
    IF n = 0 THEN {<<>>}
    ELSE LET shorter == SeqsUpTo(S, n - 1) IN
         shorter \cup {Append(q, x) : q \in {t \in shorter : Len(t) = n - 1}, x \in S}
Collections == SeqsUpTo(BookRecs, MaxBooks)
\* A collection json.MarshalIndent refuses (a value encoding/json cannot encode).
Unmarshalable == <<"!">>

\* json.MarshalIndent(bks, "", "    "): <<bytes, err>>.  The bytes of a
\* collection are never empty: they open and close the JSON array.
MarshalIndent(bks) ==
    IF \E i \in 1..Len(bks) : bks[i] \notin BookRecs THEN <<<<>>, "marshal error">>
    ELSE <<<<"[">> \o bks \o <<"]">>, "nil">>

\* Whether bytes are a JSON document json.Unmarshal accepts.
ValidJSON(b) ==
    /\ Len(b) >= 2 /\ b[1] = "[" /\ b[Len(b)] = "]"
    /\ \A i \in 2..(Len(b) - 1) : b[i] \in BookRecs
\* json.Unmarshal(jsonContent, bks): <<collection, err>>.  It checks the
\* whole input before it touches the target.
Unmarshal(b, bks) ==
    IF ValidJSON(b) THEN <<SubSeq(b, 2, Len(b) - 1), "nil">>
    ELSE <<bks, "syntax error">>

\* A file: missing, unreadable (a directory, no permission) or its bytes.
Missing == [st |-> "missing", b |-> <<>>]
Unreadable == [st |-> "unreadable", b |-> <<>>]
File(b) == [st |-> "file", b |-> b]
\* ioutil.ReadFile: <<bytes, err>>.
ReadFile(f) ==
    IF f.st = "missing" THEN <<<<>>, "not exist">>
    ELSE IF f.st = "unreadable" THEN <<<<>>, "read error">>
    ELSE <<f.b, "nil">>
\* os.IsNotExist
IsNotExist(err) == err = "not exist"

\* How a call of ioutil.WriteFile can go, by the number of bytes it writes:
\* -1 when OpenFile fails (the file is as it was); n < Len(data) when
\* OpenFile has truncated the file and Write or Close fails after n bytes;
\* Len(data) when it succeeds.
WriteOutcomes(data) == (0 - 1)..Len(data)
\* ioutil.WriteFile(path, data, 0777): <<file afterwards, err>>.
WriteFile(f, data, how) ==
    IF f.st = "unreadable" \/ how < 0 THEN <<f, "write error">>
    ELSE IF how = Len(data) THEN <<File(data), "nil">>
    ELSE <<File(SubSeq(data, 1, how)), "write error">>

\* A comparison that never finds two slices equal.
BytesEqual_Never(a, b) == FALSE
\* bytes.Equal
BytesEqual(a, b) == a = b

\* A comparison of the lengths only.
ChangesDetected_ByLength(toSave, inDB) == Len(toSave) # Len(inDB)
\* "if changes are detected, save"
ChangesDetected(toSave, inDB) == ~BytesEqual(toSave, inDB)

\* A Save that returns every error of ReadFile, a missing file included.
Save_NoFirstRun(f, bks, how) ==
    LET m == MarshalIndent(bks)
        r == ReadFile(f)
    IN  IF m[2] # "nil"
        THEN [file |-> f, hasSaved |-> FALSE, err |-> m[2], wrote |-> FALSE]
        ELSE IF r[2] # "nil"
        THEN [file |-> f, hasSaved |-> FALSE, err |-> r[2], wrote |-> FALSE]
        ELSE IF ChangesDetected(m[1], r[1])
        THEN LET w == WriteFile(f, m[1], how) IN
             IF w[2] # "nil"
             THEN [file |-> w[1], hasSaved |-> FALSE, err |-> w[2], wrote |-> TRUE]
             ELSE [file |-> w[1], hasSaved |-> TRUE, err |-> "nil", wrote |-> TRUE]
        ELSE [file |-> f, hasSaved |-> FALSE, err |-> "nil", wrote |-> FALSE]

\* JSONDB.Save(bks) on the file f, WriteFile going `how` if it is called:
\* [file afterwards, hasSaved, err, wrote (WriteFile was called)].
Save(f, bks, how) ==
    LET m == MarshalIndent(bks)
        r == ReadFile(f)
    IN  IF m[2] # "nil"
        THEN [file |-> f, hasSaved |-> FALSE, err |-> m[2], wrote |-> FALSE]
        ELSE IF r[2] # "nil" /\ ~IsNotExist(r[2])
        THEN [file |-> f, hasSaved |-> FALSE, err |-> r[2], wrote |-> FALSE]
        ELSE IF ChangesDetected(m[1], r[1])
        THEN LET w == WriteFile(f, m[1], how) IN
             IF w[2] # "nil"
             THEN [file |-> w[1], hasSaved |-> FALSE, err |-> w[2], wrote |-> TRUE]
             ELSE [file |-> w[1], hasSaved |-> TRUE, err |-> "nil", wrote |-> TRUE]
        ELSE [file |-> f, hasSaved |-> FALSE, err |-> "nil", wrote |-> FALSE]

\* A Load that returns every error of ReadFile, a missing file included.
Load_NoFirstRun(f, bks) ==
    LET r == ReadFile(f) IN
    IF r[2] # "nil"
    THEN [bks |-> bks, err |-> r[2]]
    ELSE LET u == Unmarshal(r[1], bks) IN [bks |-> u[1], err |-> u[2]]

\* JSONDB.Load(bks) from the file f: [collection afterwards, err].
Load(f, bks) ==
    LET r == ReadFile(f) IN
    IF r[2] # "nil"
    THEN IF IsNotExist(r[2])
         THEN [bks |-> bks, err |-> "nil"]
         ELSE [bks |-> bks, err |-> r[2]]
    ELSE LET u == Unmarshal(r[1], bks) IN [bks |-> u[1], err |-> u[2]]

\* An Equals that takes any two failed reads for two missing files.
Equals_AnyError(f, g) ==
    LET r1 == ReadFile(f)
        r2 == ReadFile(g)
    IN  IF r1[2] # "nil" \/ r2[2] # "nil"
        THEN r1[2] # "nil" /\ r2[2] # "nil"
        ELSE BytesEqual(r1[1], r2[1])

\* JSONDB.Equals(o) for stores on the files f and g.
Equals(f, g) ==
    LET r1 == ReadFile(f)
        r2 == ReadFile(g)
    IN  IF r1[2] # "nil" \/ r2[2] # "nil"
        THEN IsNotExist(r1[2]) /\ IsNotExist(r2[2])
        ELSE BytesEqual(r1[1], r2[1])

NoRes == [op |-> "none"]

\* db.SetPath(p); db.Save(books)
DoSave ==
    \E p \in Files :
        LET m == MarshalIndent(books) IN
        \E how \in WriteOutcomes(m[1]) :
            LET s == Save(disk[p], books, how) IN
            /\ disk' = [disk EXCEPT ![p] = s.file]
            /\ saved' = [saved EXCEPT ![p] = IF s.err = "nil" THEN TRUE
                                             ELSE IF s.wrote THEN FALSE ELSE @]
            /\ res' = [op |-> "Save", path |-> p, err |-> s.err,
                       hasSaved |-> s.hasSaved, wrote |-> s.wrote,
                       was |-> disk[p].st,
                       same |-> (s.file = disk[p]),
                       differs |-> (disk[p] # File(m[1])),
                       repeat |-> saved[p]]
            /\ UNCHANGED <<books, ixvars, cvars, mvars, pvars, gvars, svars>>

\* db.SetPath(p); db.Load(books)
DoLoad ==
    \E p \in Files :
        LET l == Load(disk[p], books) IN
        /\ books' = l.bks
        /\ saved' = IF l.bks = books THEN saved ELSE [q \in Files |-> FALSE]
        /\ res' = [op |-> "Load", path |-> p, err |-> l.err]
        /\ UNCHANGED <<disk, ixvars, cvars, mvars, pvars, gvars, svars>>

\* db.Equals(o), db on the file p and o on the file q
DoEquals ==
    \E p, q \in Files :
        /\ res' = [op |-> "Equals", path |-> p, other |-> q, eq |-> Equals(disk[p], disk[q])]
        /\ UNCHANGED <<disk, books, saved, ixvars, cvars, mvars, pvars, gvars, svars>>

\* The host changes its collection (imports, edits, removes books).
Edit ==
    \E c \in (Collections \cup {Unmarshalable}) \ {books} :
        /\ books' = c
        /\ saved' = [q \in Files |-> FALSE]
        /\ res' = NoRes
        /\ UNCHANGED <<disk, ixvars, cvars, mvars, pvars, gvars, svars>>

\* What a file can hold when the program starts: nothing, something that
\* cannot be read, a snapshot, or the start of one.
Prefixes(b) == {SubSeq(b, 1, n) : n \in 0..Len(b)}
FileStates ==
    {Missing, Unreadable}
        \cup {File(b) : b \in UNION {Prefixes(MarshalIndent(c)[1]) : c \in Collections}}

DbIdle ==
    /\ disk = [p \in Files |-> Missing] /\ books = <<>>
    /\ saved = [p \in Files |-> FALSE] /\ res = NoRes

DbInit ==
    /\ disk \in [Files -> FileStates]
    /\ books = <<>>
    /\ saved = [p \in Files |-> FALSE]
    /\ res = NoRes

DbNext == DoSave \/ DoLoad \/ DoEquals \/ Edit

(***************************************************************************)
(* db.JSONDB.Save, statement by statement, called by two writers           *)
(***************************************************************************)
Writers == {"w1", "w2"}
\* The collections the two writers save.
WriterCollections == SeqsUpTo(BookRecs, MaxWriterBooks)
NoRet == [w |-> "nobody"]
\* What the caller of a Save finds when it returns: the values returned, and
\* whether the file f then holds the collection c, another one, or neither.
Returned(w, c, f, hasSaved, err) ==
    [w |-> w, hasSaved |-> hasSaved, err |-> err,
     file |-> IF f = File(MarshalIndent(c)[1]) /\ MarshalIndent(c)[2] = "nil" THEN "mine"
              ELSE IF f.st = "file" /\ ValidJSON(f.b) THEN "another"
              ELSE "neither"]

\* Two writes through two descriptors each start at offset 0: the bytes of
\* the later one replace the first bytes of the file and leave the rest.
Overlay(data, old) ==
    IF Len(data) >= Len(old) THEN data
    ELSE data \o SubSeq(old, Len(data) + 1, Len(old))

\* Save returns (hasSaved, err) to writer w, the file being f; the locals are
\* gone and the host's critical section, if w is in it, ends.
SaveReturns(w, f, hasSaved, err) ==
    /\ snap' = f
    /\ ret' = Returned(w, wbks[w], f, hasSaved, err)
    /\ wpc' = [wpc EXCEPT ![w] = "idle"]
    /\ wbks' = [wbks EXCEPT ![w] = <<>>]
    /\ jsonToSave' = [jsonToSave EXCEPT ![w] = <<>>]
    /\ jsonInDB' = [jsonInDB EXCEPT ![w] = <<>>]
    /\ holder' = IF holder = w THEN "nobody" ELSE holder

\* Writer w calls Save(bks): json.MarshalIndent.
SaveMarshal(w) ==
    /\ wpc[w] = "idle"
    /\ hostLock => holder = "nobody"
    /\ \E c \in WriterCollections \cup {Unmarshalable} :
        LET m == MarshalIndent(c) IN
        IF m[2] # "nil"
        THEN /\ ret' = Returned(w, c, snap, FALSE, m[2])
             /\ UNCHANGED <<wpc, wbks, jsonToSave, jsonInDB, holder>>
        ELSE /\ wbks' = [wbks EXCEPT ![w] = c]
             /\ jsonToSave' = [jsonToSave EXCEPT ![w] = m[1]]
             /\ wpc' = [wpc EXCEPT ![w] = "read"]
             /\ holder' = IF hostLock THEN w ELSE holder
             /\ ret' = NoRet
             /\ UNCHANGED jsonInDB
    /\ UNCHANGED <<snap, hostLock, ixvars, dbvars, mvars, pvars, gvars, svars>>

\* ioutil.ReadFile(db.path)
SaveRead(w) ==
    /\ wpc[w] = "read"
    /\ LET r == ReadFile(snap) IN
       IF r[2] # "nil" /\ ~IsNotExist(r[2])
       THEN SaveReturns(w, snap, FALSE, r[2])
       ELSE /\ UNCHANGED snap
            /\ jsonInDB' = [jsonInDB EXCEPT ![w] = r[1]]
            /\ wpc' = [wpc EXCEPT ![w] = "compare"]
            /\ ret' = NoRet
            /\ UNCHANGED <<wbks, jsonToSave, holder>>
    /\ UNCHANGED <<hostLock, ixvars, dbvars, mvars, pvars, gvars, svars>>

\* if !bytes.Equal(jsonToSave, jsonInDB)
SaveCompare(w) ==
    /\ wpc[w] = "compare"
    /\ IF ChangesDetected(jsonToSave[w], jsonInDB[w])
       THEN /\ wpc' = [wpc EXCEPT ![w] = "open"]
            /\ ret' = NoRet
            /\ UNCHANGED <<snap, wbks, jsonToSave, jsonInDB, holder>>
       ELSE SaveReturns(w, snap, FALSE, "nil")
    /\ UNCHANGED <<hostLock, ixvars, dbvars, mvars, pvars, gvars, svars>>

\* ioutil.WriteFile: OpenFile(O_WRONLY|O_CREATE|O_TRUNC)
SaveOpen(w) ==
    /\ wpc[w] = "open"
    /\ \/ /\ WriteFile(snap, jsonToSave[w], 0 - 1)[2] # "nil"
          /\ SaveReturns(w, snap, FALSE, "write error")
       \/ /\ snap.st # "unreadable"
          /\ snap' = WriteFile(snap, jsonToSave[w], 0)[1]
          /\ wpc' = [wpc EXCEPT ![w] = "write"]
          /\ ret' = NoRet
          /\ UNCHANGED <<wbks, jsonToSave, jsonInDB, holder>>
    /\ UNCHANGED <<hostLock, ixvars, dbvars, mvars, pvars, gvars, svars>>

\* ioutil.WriteFile: Write and Close
SaveWrite(w) ==
    /\ wpc[w] = "write"
    /\ \E n \in 0..Len(jsonToSave[w]) :
        LET wf == WriteFile(File(<<>>), jsonToSave[w], n) IN
        SaveReturns(w, File(Overlay(wf[1].b, snap.b)), wf[2] = "nil", wf[2])
    /\ UNCHANGED <<hostLock, ixvars, dbvars, mvars, pvars, gvars, svars>>

CIdle ==
    /\ snap = Missing /\ hostLock = FALSE /\ holder = "nobody"
    /\ wpc = [w \in Writers |-> "idle"]
    /\ wbks = [w \in Writers |-> <<>>]
    /\ jsonToSave = [w \in Writers |-> <<>>]
    /\ jsonInDB = [w \in Writers |-> <<>>]
    /\ ret = NoRet

CInit ==
    /\ snap \in {Missing, Unreadable} \cup {File(MarshalIndent(c)[1]) : c \in WriterCollections}
    /\ hostLock \in BOOLEAN
    /\ holder = "nobody"
    /\ wpc = [w \in Writers |-> "idle"]
    /\ wbks = [w \in Writers |-> <<>>]
    /\ jsonToSave = [w \in Writers |-> <<>>]
    /\ jsonInDB = [w \in Writers |-> <<>>]
    /\ ret = NoRet

CNext ==
    \E w \in Writers :
        \/ SaveMarshal(w)
        \/ SaveRead(w)
        \/ SaveCompare(w)
        \/ SaveOpen(w)
        \/ SaveWrite(w)

(***************************************************************************)
(* book.Metadata: strings, alias tables and tags                           *)
(***************************************************************************)
\* A string is a sequence of tokens; SP is a whitespace token, every other
\* token stands for a run of non-blank characters.
SP == " "
Empty == <<>>

RECURSIVE TrimLeft(_)
TrimLeft(s) == IF s # <<>> /\ Head(s) = SP THEN TrimLeft(Tail(s)) ELSE s
RECURSIVE TrimRight(_)
TrimRight(s) ==
    IF s # <<>> /\ s[Len(s)] = SP THEN TrimRight(SubSeq(s, 1, Len(s) - 1)) ELSE s
\* strings.TrimSpace
TrimSpace(s) == TrimRight(TrimLeft(s))

\* strings.Contains
Contains(s, sub) ==
    \E k \in 1..Len(s) : k + Len(sub) - 1 <= Len(s) /\ SubSeq(s, k, k + Len(sub) - 1) = sub

\* h.StringInSlice: exact membership in a list of strings.
StringInSlice(a, list) == \E k \in 1..Len(list) : list[k] = a

\* An alias table is a Go map from a main alias to the list of its variants.
\* The code ranges over the map and stops at the first entry listing the
\* value; the tables used here list every variant under one main alias only,
\* so the iteration order of the map does not show.
Matching(table, s) == {m \in DOMAIN table : StringInSlice(s, table[m])}
Unambiguous(table) ==
    \A m1, m2 \in DOMAIN table :
        m1 # m2 => ~\E k \in 1..Len(table[m1]) : StringInSlice(table[m1][k], table[m2])
MainAlias(table, s) ==
    IF Matching(table, s) = {} THEN s ELSE CHOOSE m \in Matching(table, s) : TRUE

languageAliases ==
    (<<"en">> :> << <<"en-US">>, <<"en-GB">>, <<"eng">> >>) @@
    (<<"fr">> :> << <<"fr-FR">>, <<"fre">> >>)

\* The lookup is made with the raw argument, the fallback is the trimmed one.
cleanLanguage(language) ==
    IF Matching(languageAliases, language) # {}
    THEN MainAlias(languageAliases, language)
    ELSE TrimSpace(language)

tagAliases ==
    (<<"science-fiction">> :> << <<"sf">>, <<"sci-fi">>, <<"scifi-fantasy">>, <<"scifi">>,
                                 <<"science", SP, "fiction">>, <<"sciencefiction">>,
                                 <<"sci-fi-fantasy">> >>) @@
    (<<"fantasy">> :> << <<"fantasy-sci-fi">>, <<"fantasy-scifi">>, <<"fantasy-fiction">> >>) @@
    (<<"dystopia">> :> << <<"dystopian">> >>)

\* Each forbidden word is one token: a tag name contains it when the token
\* occurs in the name.
forbiddenTags ==
    << <<"own">>, <<"school">>, <<"favorite">>, <<"favourite">>, <<"book">>, <<"adult">>,
       <<"read">>, <<"kindle">>, <<"borrowed">>, <<"classic">>, <<"novel">>, <<"buy">>,
       <<"star">>, <<"release">>, <<"wait">>, <<"soon">>, <<"wish">>, <<"published">>,
       <<"want">>, <<"tbr">>, <<"series">>, <<"finish">>, <<"to-">>, <<"not-">>,
       <<"library">>, <<"audible">>, <<"coming">>, <<"anticipated">>, <<"default">>,
       <<"recommended">>, <<"-list">>, <<"sequel">>, <<"general">>, <<"have">>, <<"bundle">> >>

IsForbidden(name) == \E k \in 1..Len(forbiddenTags) : Contains(name, forbiddenTags[k])

\* Tags is a list of tags; a tag is modelled by its name.
Has(tags, name) == \E k \in 1..Len(tags) : tags[k] = name
\* Tags.Add: append unless a tag of that name is already there.
Add(tags, name) == IF Has(tags, name) THEN tags ELSE Append(tags, name)
\* Tags.AddFromNames, for one name: the name is trimmed, then added.
AddFromNames(tags, name) == Add(tags, TrimSpace(name))
\* Tags.RemoveFromNames
RemoveFromNames(tags, name) == SelectSeq(tags, LAMBDA t : t # name)

TopTags == 10

RECURSIVE cleanTagsLoop(_, _)
cleanTagsLoop(tags, acc) ==
    IF tags = <<>> THEN acc
    ELSE LET name == MainAlias(tagAliases, Head(tags))
         IN  cleanTagsLoop(Tail(tags),
                           IF IsForbidden(name) THEN acc ELSE Add(acc, TrimSpace(name)))

cleanTags_NoTruncate(tags) == cleanTagsLoop(tags, <<>>)

cleanTags(tags) ==
    LET all == cleanTagsLoop(tags, <<>>)
    IN  IF Len(all) > TopTags THEN SubSeq(all, 1, TopTags) ELSE all

\* Tags.Clean replaces the tags by their cleaned list.
TagsClean(tags) == cleanTags(tags)

\* cleanTagName: what cleanTags does to one name; a forbidden name is an error.
cleanTagName(name) ==
    LET main == MainAlias(tagAliases, name)
    IN  IF IsForbidden(main) THEN <<Empty, "forbidden">> ELSE <<TrimSpace(main), "nil">>

(***************************************************************************)
(* book.Metadata.Clean                                                     *)
(***************************************************************************)
\* A year is written character by character.
unknownYear == <<"X", "X", "X", "X">>
unknown == <<"Unknown">>

\* cleanHTML: markup tokens are stripped, text stays.
HTMLTags == {"<p>", "</p>"}
cleanHTML(desc) == SelectSeq(desc, LAMBDA t : t \notin HTMLTags)

validCategories == << <<"fiction">>, <<"nonfiction">> >>
validTypes == << <<"essay">>, <<"biography">>, <<"novel">>, <<"anthology">> >>

\* cleanCategory and cleanType: the trimmed value must be one of the closed
\* enum, anything else is an error.
cleanCategory(category) ==
    LET clean == TrimSpace(category)
    IN  IF StringInSlice(clean, validCategories) THEN <<clean, "nil">>
        ELSE <<Empty, "invalid category">>
cleanType(tp) ==
    LET clean == TrimSpace(tp)
    IN  IF StringInSlice(clean, validTypes) THEN <<clean, "nil">>
        ELSE <<Empty, "invalid type">>

RECURSIVE AliasTags(_, _, _)
AliasTags(tags, table, acc) ==
    IF tags = <<>> THEN acc
    ELSE AliasTags(Tail(tags), table, AddFromNames(acc, MainAlias(table, Head(tags))))

useAliases(i, c) ==
    [i EXCEPT !.Authors = [j \in 1..Len(i.Authors) |-> MainAlias(c.AuthorAliases, i.Authors[j])],
              !.Tags = AliasTags(i.Tags, c.TagAliases, <<>>),
              !.Genre = MainAlias(c.TagAliases, i.Genre),
              !.Type = MainAlias(c.TagAliases, i.Type),
              !.Publisher = MainAlias(c.PublisherAliases, i.Publisher)]

\* The element of a set of one element.  Only({e(x) : x \in {v}}) is e of the
\* value of v, with v evaluated once however often e uses it: the statements
\* of a function, run in sequence.
Only(S) == CHOOSE x \in S : TRUE

\* default year
DefaultYears(i) ==
    LET oy == IF i.OriginalYear = Empty
              THEN (IF i.EditionYear # Empty THEN i.EditionYear ELSE unknownYear)
              ELSE i.OriginalYear
        ey == IF i.EditionYear = Empty
              THEN (IF oy # Empty THEN oy ELSE unknownYear)
              ELSE i.EditionYear
    IN  [i EXCEPT !.OriginalYear = oy, !.EditionYear = ey]

\* The first entry of list that is the name of one of the tags, or Empty.
FirstInTags(list, tags) ==
    LET found == {k \in 1..Len(list) : Has(tags, list[k])}
    IN  IF found = {} THEN Empty
        ELSE list[CHOOSE k \in found : \A l \in found : k <= l]

\* autofill category
AutofillCategory(i) ==
    LET poss == FirstInTags(validCategories, i.Tags)
        a == IF i.Category = Empty /\ poss # Empty
             THEN [i EXCEPT !.Category = poss, !.Tags = RemoveFromNames(@, poss)]
             ELSE i
        b == IF a.Category = Empty THEN [a EXCEPT !.Category = unknown] ELSE a
        cat == cleanCategory(b.Category)
    IN  IF cat[2] = "nil"
        THEN [b EXCEPT !.Category = cat[1], !.Tags = RemoveFromNames(@, cat[1])]
        ELSE b

\* autofill type
AutofillType(i) ==
    LET poss == FirstInTags(validTypes, i.Tags)
        a == IF i.Type = Empty /\ poss # Empty
             THEN [i EXCEPT !.Type = poss, !.Tags = RemoveFromNames(@, poss)]
             ELSE i
        b == IF a.Type = Empty THEN [a EXCEPT !.Type = unknown] ELSE a
        tp == cleanType(b.Type)
    IN  IF tp[2] = "nil"
        THEN [b EXCEPT !.Type = tp[1], !.Tags = RemoveFromNames(@, tp[1])]
        ELSE b

\* MainGenre
MainGenre(i) ==
    LET cn == IF i.Tags # <<>> THEN cleanTagName(i.Tags[1]) ELSE <<Empty, "no tag">>
        a == IF i.Genre = Empty /\ i.Tags # <<>> /\ cn[2] = "nil"
             THEN [i EXCEPT !.Genre = cn[1], !.Tags = RemoveFromNames(@, cn[1])]
             ELSE i
    IN  IF a.Genre = Empty THEN [a EXCEPT !.Genre = unknown] ELSE a

\* clean series, clean publisher
TrimSeriesAndPublisher(i) ==
    [i EXCEPT !.Series = [j \in 1..Len(i.Series) |->
                             [i.Series[j] EXCEPT !.Name = TrimSpace(@)]],
              !.Publisher = TrimSpace(@)]

Clean(i, c) ==
    LET y == DefaultYears(i)
        l == [y EXCEPT !.Description = cleanHTML(@), !.Language = cleanLanguage(@)]
    IN  Only({Only({Only({Only({Only({Only({useAliases(p, c)
            : p \in {TrimSeriesAndPublisher(g)}})
            : g \in {MainGenre(b)}})
            : b \in {AutofillType(a)}})
            : a \in {AutofillCategory(t)}})
            : t \in {[u EXCEPT !.Tags = TagsClean(@)]}})
            : u \in {useAliases(l, c)}})

(***************************************************************************)
(* Records and configurations Clean is run on                              *)
(***************************************************************************)
MaxCleans == 2

NoAliases == [AuthorAliases |-> <<>>, TagAliases |-> <<>>, PublisherAliases |-> <<>>]
\* The configuration of the README.
ReadmeAliases ==
    [AuthorAliases |->
        (<<"Richard", SP, "K.", SP, "Morgan">> :> << <<"Richard", SP, "Morgan">> >>),
     TagAliases |->
        (<<"science-fiction">> :> << <<"sci-fi">>, <<"sf">>, <<"sciencefiction">> >>),
     PublisherAliases |->
        (<<"Tor">> :> << <<"Tom", SP, "Doherty", SP, "Associates">> >>)]
\* The configuration of the README with one more tag alias: the tag "novel" is
\* filed under "fiction".
NovelAliases ==
    [ReadmeAliases EXCEPT !.TagAliases =
        (<<"science-fiction">> :> << <<"sci-fi">>, <<"sf">>, <<"sciencefiction">> >>)
        @@ (<<"fiction">> :> << <<"novel">> >>)]
Configs == {NoAliases, ReadmeAliases, NovelAliases}

InOriginalYears == {Empty, <<"1", "9", "9", "9">>}
InEditionYears == {Empty, <<"2", "0", "1", "3">>}
InDescriptions == {<<"text">>, <<"<p>", "text", "</p>">>}
InLanguages == {<<"en">>, <<"eng">>, <<SP, "eng">>, <<"de", SP>>}
InAuthors ==
    { << <<"Richard", SP, "Morgan">> >>,
      << <<"Iain", SP, "Banks">>, <<"Richard", SP, "K.", SP, "Morgan">> >> }
ManyTags ==
    << <<"t1">>, <<"t2">>, <<"t3">>, <<"t4">>, <<"t5">>, <<"t6">>,
       <<"t7">>, <<"t8">>, <<"t9">>, <<"t10">>, <<"t11">>, <<"t12">> >>
InTags ==
    { <<>>,
      << <<"sci-fi">>, <<"tbr">>, <<"space-opera">>, <<"sci-fi">> >>,
      << <<"nonfiction">>, <<"essay">>, <<"history">> >>,
      << <<SP, "sf">>, <<"to-", "read">>, <<"fiction">> >>,
      << <<"dystopian">>, <<"biography">> >>,
      ManyTags }
InCategories == {Empty, <<"fiction">>}
InTypes == {Empty, <<"novel">>}
InGenres == {Empty, <<"sf">>}
InSeries == {<<>>, <<[Name |-> <<SP, "Culture">>, Index |-> <<"1">>]>>}
InPublishers == {<<"Tor", SP>>, <<SP, "Tom", SP, "Doherty", SP, "Associates">>}

Records ==
    [BookTitle : {<<"Dune">>}, ISBN : {Empty},
     OriginalYear : InOriginalYears, EditionYear : InEditionYears,
     Description : InDescriptions, Language : InLanguages, Authors : InAuthors,
     Tags : InTags, Category : InCategories, Type : InTypes, Genre : InGenres,
     Series : InSeries, Publisher : InPublishers,
     ImageURL : {Empty}, NumPages : {Empty}, AverageRating : {Empty}]

\* Metadata{}
NoRecord ==
    [BookTitle |-> Empty, ISBN |-> Empty,
     OriginalYear |-> Empty, EditionYear |-> Empty, Description |-> Empty,
     Language |-> Empty, Authors |-> <<>>, Tags |-> <<>>, Category |-> Empty,
     Type |-> Empty, Genre |-> Empty, Series |-> <<>>, Publisher |-> Empty,
     ImageURL |-> Empty, NumPages |-> Empty, AverageRating |-> Empty]

\* Metadata.Clean(cfg), run on the record once more.
DoClean ==
    /\ ncleans < MaxCleans
    /\ prevmd' = md
    /\ md' = Clean(md, cfg)
    /\ ncleans' = ncleans + 1
    /\ UNCHANGED <<cfg, ixvars, dbvars, cvars, pvars, gvars, svars>>

MIdle == md = NoRecord /\ cfg = NoAliases /\ ncleans = 0 /\ prevmd = NoRecord

MInit ==
    /\ md \in Records
    /\ cfg \in Configs
    /\ ncleans = 0
    /\ prevmd = md

MNext == DoClean

(***************************************************************************)
(* cleanISBN                                                               *)
(***************************************************************************)
\* In an ISBN string every token is one character.
Digits == {"0", "1", "2", "3", "4", "5", "6", "7", "8", "9"}
ISBNLen == 13

\* strings.HasPrefix
HasPrefix(s, prefix) == Len(s) >= Len(prefix) /\ SubSeq(s, 1, Len(prefix)) = prefix

\* regexp [0-9]+, FindAllString joined: the digits of the string, in order.
OnlyDigits(full) == SelectSeq(full, LAMBDA ch : ch \in Digits)

cleanISBN_NoSalvage(full) ==
    LET candidate == OnlyDigits(full)
    IN  IF (HasPrefix(candidate, <<"9", "7", "8">>) \/ HasPrefix(candidate, <<"9", "7", "9">>))
           /\ Len(candidate) = ISBNLen
        THEN <<candidate, "nil">>
        ELSE <<Empty, "ISBN-13 not found">>

cleanISBN_KeepAll(full) ==
    LET candidate == OnlyDigits(full)
    IN  IF (HasPrefix(candidate, <<"9", "7", "8">>) \/ HasPrefix(candidate, <<"9", "7", "9">>))
           /\ Len(candidate) >= ISBNLen
        THEN <<candidate, "nil">>
        ELSE <<Empty, "ISBN-13 not found">>

cleanISBN(full) ==
    LET candidate == OnlyDigits(full)
    IN  IF HasPrefix(candidate, <<"9", "7", "8">>) \/ HasPrefix(candidate, <<"9", "7", "9">>)
        THEN IF Len(candidate) # ISBNLen
             THEN IF Len(candidate) > ISBNLen
                  THEN <<SubSeq(candidate, 1, ISBNLen), "nil">>
                  ELSE <<Empty, "ISBN-13 not found">>
             ELSE <<candidate, "nil">>
        ELSE <<Empty, "ISBN-13 not found">>

MaxChunks == 4

\* Pieces the argument strings are made of.
Chunks ==
    { <<"9", "7", "8">>, <<"9", "7", "9">>, <<"9", "7", "7">>, <<"-">>,
      <<"0", "4", "4", "1">>, <<"0", "1", "3", "5", "9", "3">>, <<"h", "i">> }
RECURSIVE Concat(_)
Concat(ss) == IF ss = <<>> THEN <<>> ELSE Head(ss) \o Concat(Tail(ss))
\* "9-78-0-4--410-13-593"
TestISBN ==
    <<"9", "-", "7", "8", "-", "0", "-", "4", "-", "-", "4", "1", "0", "-", "1", "3",
      "-", "5", "9", "3">>
ISBNStrings == {Concat(ss) : ss \in SeqsUpTo(Chunks, MaxChunks)} \cup {TestISBN}

\* cleanISBN(full)
ApplyCleanISBN ==
    /\ arg \in ISBNStrings
    /\ out = <<>>
    /\ out' = <<cleanISBN(arg)>>
    /\ UNCHANGED <<arg, ixvars, dbvars, cvars, mvars, gvars, svars>>

(***************************************************************************)
(* cleanTags, called on a tag list and again on its own result             *)
(***************************************************************************)
MaxTagList == 3

TagNames ==
    { <<"sci-fi">>, <<SP, "sf">>, <<"tbr">>, <<"to-", "read">>, <<"space-opera">>,
      <<"science-fiction">>, <<"space-opera", SP>> }
SpecExampleTags == << <<"sci-fi">>, <<"tbr">>, <<"space-opera">>, <<"sci-fi">> >>
TagLists ==
    SeqsUpTo(TagNames, MaxTagList) \cup
    { SpecExampleTags, ManyTags, << <<"tbr">>, <<"t1">> >> \o ManyTags,
      ManyTags \o << <<"sci-fi">> >> }

\* cleanTags(tags), first on the argument, then on the result of the last call.
ApplyCleanTags ==
    /\ arg \in TagLists
    /\ Len(out) < MaxCleans
    /\ out' = Append(out, cleanTags(IF out = <<>> THEN arg ELSE out[Len(out)]))
    /\ UNCHANGED <<arg, ixvars, dbvars, cvars, mvars, gvars, svars>>

(***************************************************************************)
(* book.Metadata: Get and Set                                              *)
(***************************************************************************)
COMMA == ","
COLON == ":"

\* strings.Split on a one-token separator; Split of the empty string is [""].
RECURSIVE Split(_, _)
Split(s, sep) ==
    IF \E k \in 1..Len(s) : s[k] = sep
    THEN LET k == CHOOSE j \in 1..Len(s) : s[j] = sep /\ \A l \in 1..(j - 1) : s[l] # sep
         IN  <<SubSeq(s, 1, k - 1)>> \o Split(SubSeq(s, k + 1, Len(s)), sep)
    ELSE <<s>>

\* strings.Join
RECURSIVE Join(_, _)
Join(list, sep) ==
    IF list = <<>> THEN <<>>
    ELSE IF Len(list) = 1 THEN list[1]
    ELSE list[1] \o sep \o Join(Tail(list), sep)

\* strings.ToLower, token by token; the tokens with capitals are listed.
Lower ==
    ("SF" :> "sf") @@ ("Space-Opera" :> "space-opera") @@ ("Novel" :> "novel")
    @@ ("A" :> "a") @@ ("E" :> "e")
ToLower(s) == [k \in 1..Len(s) |-> IF s[k] \in DOMAIN Lower THEN Lower[s[k]] ELSE s[k]]

\* strconv.Atoi succeeds on an optional sign followed by digits.
Atoi(s) ==
    LET body == IF s # <<>> /\ s[1] \in {"+", "-"} THEN Tail(s) ELSE s
    IN  IF body # <<>> /\ \A k \in 1..Len(body) : body[k] \in Digits
        THEN "nil" ELSE "invalid syntax"

MetadataFieldNames ==
    <<"author", "title", "year", "edition_year", "publisher", "description", "language",
      "category", "type", "genre", "tags", "series", "isbn">>
metadataFieldMap ==
    [author |-> "Authors", title |-> "BookTitle", year |-> "OriginalYear",
     edition_year |-> "EditionYear", publisher |-> "Publisher",
     description |-> "Description", language |-> "Language", category |-> "Category",
     type |-> "Type", genre |-> "Genre", tags |-> "Tags", series |-> "Series",
     isbn |-> "ISBN"]

\* getField: the field is named by its public name or by the name of the
\* struct field; the result is <<public name, struct field, error>>.
getField(field) ==
    LET hits == {k \in DOMAIN metadataFieldMap : k = field \/ metadataFieldMap[k] = field}
    IN  IF hits = {} THEN <<"", "", "Invalid field">>
        ELSE LET k == CHOOSE h \in hits : TRUE IN <<k, metadataFieldMap[k], "nil">>

\* Tags.String: the names, joined by ", ".
TagsString(tags) == Join(tags, <<COMMA, SP>>)

\* A series index is empty, a number, or a range of two numbers.
IsNumber(s) ==
    /\ \E k \in 1..Len(s) : s[k] \in Digits
    /\ \A k \in 1..Len(s) : s[k] \in Digits \cup {"."}
    /\ Cardinality({k \in 1..Len(s) : s[k] = "."}) <= 1
IsIndex(s) ==
    \/ s = <<>>
    \/ IsNumber(s)
    \/ LET parts == Split(s, "-") IN Len(parts) = 2 /\ IsNumber(parts[1]) /\ IsNumber(parts[2])

\* Series.AddFromString: "name" or "name:index"; the entry is added, or the
\* index of the series of that name replaced; an index that does not parse
\* is an error and leaves the series as they are.
AddFromString(series, candidate) ==
    LET parts == Split(TrimSpace(candidate), COLON)
        name == TrimSpace(parts[1])
        index == IF Len(parts) = 2 THEN TrimSpace(parts[2]) ELSE <<>>
        at == {j \in 1..Len(series) : series[j].Name = name}
    IN  IF Len(parts) > 2 \/ name = <<>> \/ ~IsIndex(index)
        THEN <<series, "Could not parse series">>
        ELSE IF at = {}
        THEN <<Append(series, [Name |-> name, Index |-> index]), "nil">>
        ELSE <<[j \in 1..Len(series) |->
                   IF j \in at THEN [series[j] EXCEPT !.Index = index] ELSE series[j]], "nil">>

\* Series.rawString: "name:index" entries joined by ", ".
RawString(series) ==
    Join([j \in 1..Len(series) |->
             IF series[j].Index = <<>> THEN series[j].Name
             ELSE series[j].Name \o <<COLON>> \o series[j].Index], <<COMMA, SP>>)

\* Metadata.Author
Author(i) == IF Len(i.Authors) # 0 THEN Join(i.Authors, <<COMMA, SP>>) ELSE unknown
\* Metadata.Title
Title(i) == i.BookTitle

\* Metadata.Get: <<value, error>>
Get(i, field) ==
    LET f == getField(field)
    IN  IF f[3] # "nil" THEN <<Empty, f[3]>>
        ELSE IF f[1] = "tags" THEN <<TagsString(i.Tags), "nil">>
        ELSE IF f[1] = "series" THEN <<RawString(i.Series), "nil">>
        ELSE IF f[1] = "author" THEN <<Author(i), "nil">>
        ELSE <<i[f[2]], "nil">>

RECURSIVE AddAllFromNames(_, _)
AddAllFromNames(tags, names) ==
    IF names = <<>> THEN tags
    ELSE AddAllFromNames(AddFromNames(tags, Head(names)), Tail(names))

\* The loop of Set over the entries of a series value: it stops at the
\* first entry that does not parse, with the entries added so far.
RECURSIVE AddSeries(_, _)
AddSeries(series, entries) ==
    IF entries = <<>> THEN <<series, "nil">>
    ELSE LET r == AddFromString(series, Head(entries))
         IN  IF r[2] # "nil" THEN r ELSE AddSeries(r[1], Tail(entries))

\* Metadata.Set: <<the record after the call, error>>
Set(i, field, value) ==
    LET f == getField(field)
        pub == f[1]
    IN  IF f[3] # "nil" THEN <<i, f[3]>>
        ELSE IF pub = "tags"
        THEN <<[i EXCEPT !.Tags = AddAllFromNames(<<>>, Split(ToLower(value), COMMA))], "nil">>
        ELSE IF pub = "series"
        THEN IF value # <<>>
             THEN LET r == AddSeries(<<>>, Split(value, COMMA))
                  IN  <<[i EXCEPT !.Series = r[1]], r[2]>>
             ELSE <<[i EXCEPT !.Series = <<>>], "nil">>
        ELSE IF pub = "author"
        THEN LET names == Split(value, COMMA)
             IN  <<[i EXCEPT !.Authors = [j \in 1..Len(names) |-> TrimSpace(names[j])]], "nil">>
        ELSE IF pub \in {"year", "edition_year"}
        THEN IF Atoi(value) # "nil" THEN <<i, "Invalid year value">>
             ELSE <<[i EXCEPT ![f[2]] = value], "nil">>
        ELSE IF pub = "isbn"
        THEN LET c == cleanISBN(value)
             IN  IF c[2] # "nil" THEN <<i, c[2]>> ELSE <<[i EXCEPT !.ISBN = c[1]], "nil">>
        ELSE IF pub = "category"
        THEN LET c == cleanCategory(value)
             IN  IF c[2] # "nil" THEN <<i, c[2]>> ELSE <<[i EXCEPT !.Category = c[1]], "nil">>
        ELSE IF pub = "type"
        THEN LET c == cleanType(value)
             IN  IF c[2] # "nil" THEN <<i, c[2]>> ELSE <<[i EXCEPT !.Type = c[1]], "nil">>
        ELSE IF pub = "description"
        THEN <<[i EXCEPT !.Description = cleanHTML(value)], "nil">>
        ELSE IF pub = "language"
        THEN <<[i EXCEPT !.Language = cleanLanguage(value)], "nil">>
        ELSE <<[i EXCEPT ![f[2]] = value], "nil">>

(***************************************************************************)
(* book.Metadata: MergeField and Merge                                     *)
(***************************************************************************)
\* getLargeGRUrl: the address of the large version of a cover image.
getLargeGRUrl(url) == [k \in 1..Len(url) |-> IF url[k] = "m/" THEN "l/" ELSE url[k]]

\* The decision port (ui.SelectOption).  A port answers every field the same
\* way: with the local value, the online value, the unknown sentinel or a
\* text of its own; a port may also fail at one field (the first, one in the
\* middle or the last), and answers the other fields with the online value.
Policies == {"local", "online", "unknown", "text"}
FailPoints == {1, 7, Len(MetadataFieldNames)}
Ports ==
    [policy : Policies, failAt : {0}] \cup [policy : {"online"}, failAt : FailPoints]
FreeText == <<"h", "i">>
LocalOption(i, field) ==
    IF field = "language" THEN cleanLanguage(i.Language)
    ELSE IF field = "description" THEN cleanHTML(i.Description)
    ELSE Get(i, field)[1]
SelectOption(policy, failing, i, o, field) ==
    IF failing THEN <<Empty, "port error">>
    ELSE IF policy = "local" THEN <<LocalOption(i, field), "nil">>
    ELSE IF policy = "online" THEN <<LocalOption(o, field), "nil">>
    ELSE IF policy = "unknown"
    THEN <<IF field \in {"year", "edition_year"} THEN unknownYear ELSE unknown, "nil">>
    ELSE <<FreeText, "nil">>

MergeField_AlwaysAsk(i, o, field, c, diffOnly, policy, failing) ==
    LET currentValue == Get(i, field)
        otherValue == Get(o, field)
        userInput == SelectOption(policy, failing, i, o, field)
    IN  IF currentValue[2] # "nil" THEN [md |-> i, err |-> currentValue[2], asked |-> FALSE]
        ELSE IF otherValue[2] # "nil" THEN [md |-> i, err |-> otherValue[2], asked |-> FALSE]
        ELSE IF userInput[2] # "nil" THEN [md |-> i, err |-> userInput[2], asked |-> TRUE]
        ELSE Only({IF set[2] # "nil" THEN [md |-> set[1], err |-> set[2], asked |-> TRUE]
                   ELSE [md |-> Clean(set[1], c), err |-> "nil", asked |-> TRUE]
                   : set \in {Set(i, field, userInput[1])}})

\* Metadata.MergeField, with the port's policy: the record after the call,
\* the error, and whether the port was invoked.
MergeField(i, o, field, c, diffOnly, policy, failing) ==
    LET currentValue == Get(i, field)
        otherValue == Get(o, field)
        userInput == SelectOption(policy, failing, i, o, field)
    IN  IF currentValue[2] # "nil" THEN [md |-> i, err |-> currentValue[2], asked |-> FALSE]
        ELSE IF otherValue[2] # "nil" THEN [md |-> i, err |-> otherValue[2], asked |-> FALSE]
        ELSE IF diffOnly /\ currentValue[1] = otherValue[1]
        THEN [md |-> i, err |-> "nil", asked |-> FALSE]
        ELSE IF userInput[2] # "nil" THEN [md |-> i, err |-> userInput[2], asked |-> TRUE]
        ELSE Only({IF set[2] # "nil" THEN [md |-> set[1], err |-> set[2], asked |-> TRUE]
                   ELSE [md |-> Clean(set[1], c), err |-> "nil", asked |-> TRUE]
                   : set \in {Set(i, field, userInput[1])}})

\* The loop of Merge from field number k on, then the copy of the fields
\* that only the online record has, and Clean.  asked is the list of the
\* fields the port was invoked for, failed the field the loop stopped at.
RECURSIVE MergeFrom(_, _, _, _, _, _, _, _)
MergeFrom(k, i, o, c, diffOnly, policy, failAt, asked) ==
    IF k > Len(MetadataFieldNames)
    THEN [md |-> Clean([i EXCEPT !.ImageURL = getLargeGRUrl(o.ImageURL),
                                 !.NumPages = o.NumPages,
                                 !.AverageRating = o.AverageRating], c),
          err |-> "nil", asked |-> asked, failed |-> ""]
    ELSE LET field == MetadataFieldNames[k]
             next(r) ==
                 IF r.err # "nil"
                 THEN [md |-> r.md, err |-> r.err,
                       asked |-> IF r.asked THEN Append(asked, field) ELSE asked,
                       failed |-> field]
                 ELSE MergeFrom(k + 1, r.md, o, c, diffOnly, policy, failAt,
                                IF r.asked THEN Append(asked, field) ELSE asked)
         IN  Only({next(r) : r \in {MergeField(i, o, field, c, diffOnly, policy, k = failAt)}})

Merge_NoCopy(i, o, c, diffOnly, policy, failAt) ==
    Only({[r EXCEPT !.md = [r.md EXCEPT !.ImageURL = i.ImageURL,
                                        !.NumPages = i.NumPages,
                                        !.AverageRating = i.AverageRating]]
          : r \in {MergeFrom(1, i, o, c, diffOnly, policy, failAt, <<>>)}})

Merge_CopyOnError(i, o, c, diffOnly, policy, failAt) ==
    Only({[r EXCEPT !.md = [r.md EXCEPT !.ImageURL = getLargeGRUrl(o.ImageURL),
                                        !.NumPages = o.NumPages,
                                        !.AverageRating = o.AverageRating]]
          : r \in {MergeFrom(1, i, o, c, diffOnly, policy, failAt, <<>>)}})

Merge(i, o, c, diffOnly, policy, failAt) ==
    MergeFrom(1, i, o, c, diffOnly, policy, failAt, <<>>)

(***************************************************************************)
(* A record under Set, Get, Clean, MergeField and Merge                    *)
(***************************************************************************)
MaxOps == 2

\* What an epub gives: no ISBN, no category, type or genre.
EpubRecord ==
    [NoRecord EXCEPT !.BookTitle = <<"Dune">>,
                     !.Authors = << <<"Richard", SP, "Morgan">> >>,
                     !.OriginalYear = <<"1", "9", "9", "9">>,
                     !.Description = <<"text">>,
                     !.Language = <<"eng">>,
                     !.Tags = << <<"sci-fi">>, <<"tbr">> >>,
                     !.Publisher = <<"Tor", SP>>]
\* What the online source gives.
OnlineRecord ==
    [NoRecord EXCEPT !.BookTitle = <<"Dune">>,
                     !.Authors = << <<"Richard", SP, "K.", SP, "Morgan">> >>,
                     !.ISBN = <<"9", "7", "8", "0", "3", "4", "0", "8", "3", "9", "9", "3", "5">>,
                     !.OriginalYear = <<"1", "9", "9", "9">>,
                     !.EditionYear = <<"2", "0", "1", "3">>,
                     !.Description = <<"<p>", "text", "</p>">>,
                     !.Language = <<"en-US">>,
                     !.Tags = << <<"space-opera">>, <<"fiction">>, <<"anthology">>, <<"dystopian">> >>,
                     !.Series = <<[Name |-> <<"Culture">>, Index |-> <<"1">>]>>,
                     !.Publisher = <<"Tor">>,
                     !.ImageURL = <<"http://gr/", "m/", "1.jpg">>,
                     !.NumPages = <<"320">>,
                     !.AverageRating = <<"4.1">>]

LocalRecords == {NoRecord, EpubRecord}
\* getOnlineMetadata cleans what it has retrieved; SearchOnline merges with
\* an empty record when nothing was retrieved.
OnlineRecords(c) == {NoRecord, Clean(OnlineRecord, c)}

\* The field names and the values Set is called with.
FieldArgs == {MetadataFieldNames[k] : k \in 1..Len(MetadataFieldNames)} \cup {"ISBN", "bogus"}
SetValues(field) ==
    IF field \in {"year", "edition_year"}
    THEN {<<"2", "0", "1", "3">>, <<"1", "2">>, FreeText, unknownYear}
    ELSE IF field \in {"isbn", "ISBN"} THEN {TestISBN, TestISBN \o <<"-", "1">>, FreeText, Empty}
    ELSE IF field = "category" THEN {<<"fiction">>, FreeText}
    ELSE IF field = "type" THEN {<<"novel">>, FreeText}
    ELSE IF field = "tags" THEN {<<"SF", COMMA, SP, "space-opera">>, Empty}
    ELSE IF field = "series"
    THEN {<<"Culture", COLON, "2", ".", "5">>,
          <<"Culture", COLON, "1", COMMA, SP, "Dune", COLON, "x">>, Empty}
    ELSE IF field = "author" THEN {<<"Iain", SP, "Banks", COMMA, SP, "Richard", SP, "Morgan">>}
    ELSE IF field = "language" THEN {<<SP, "eng">>}
    ELSE IF field = "description" THEN {<<"<p>", "text", "</p>">>}
    ELSE {FreeText}

NoCall ==
    [op |-> "none", field |-> "", value |-> Empty, err |-> "nil", got |-> Empty,
     asked |-> <<>>, failed |-> "", diffOnly |-> FALSE]

\* i.Set(field, value)
DoSet ==
    /\ nops < MaxOps
    /\ \E field \in FieldArgs : \E value \in SetValues(field) :
         LET r == Set(md, field, value) IN
         /\ md' = r[1]
         /\ call' = [NoCall EXCEPT !.op = "Set", !.field = field, !.value = value, !.err = r[2]]
    /\ prevmd' = md
    /\ nops' = nops + 1
    /\ UNCHANGED <<cfg, ncleans, other, ixvars, dbvars, cvars, pvars, svars>>

\* i.Get(field)
DoGet ==
    /\ nops < MaxOps
    /\ \E field \in FieldArgs :
         LET r == Get(md, field) IN
         call' = [NoCall EXCEPT !.op = "Get", !.field = field, !.got = r[1], !.err = r[2]]
    /\ prevmd' = md
    /\ nops' = nops + 1
    /\ UNCHANGED <<md, cfg, ncleans, other, ixvars, dbvars, cvars, pvars, svars>>

\* i.Clean(cfg)
DoCleanRecord ==
    /\ nops < MaxOps
    /\ md' = Clean(md, cfg)
    /\ call' = [NoCall EXCEPT !.op = "Clean"]
    /\ prevmd' = md
    /\ nops' = nops + 1
    /\ UNCHANGED <<cfg, ncleans, other, ixvars, dbvars, cvars, pvars, svars>>

\* i.MergeField(o, field, cfg, ui, diffOnly)
DoMergeField ==
    /\ nops < MaxOps
    /\ \E field \in FieldArgs : \E diffOnly \in BOOLEAN :
      \E port \in [policy : Policies, failAt : {0}] \cup {[policy |-> "online", failAt |-> 1]} :
         LET r == MergeField(md, other, field, cfg, diffOnly, port.policy, port.failAt = 1) IN
         /\ md' = r.md
         /\ call' = [NoCall EXCEPT !.op = "MergeField", !.field = field, !.err = r.err,
                                   !.asked = IF r.asked THEN <<field>> ELSE <<>>,
                                   !.failed = IF r.err # "nil" THEN field ELSE "",
                                   !.diffOnly = diffOnly]
    /\ prevmd' = md
    /\ nops' = nops + 1
    /\ UNCHANGED <<cfg, ncleans, other, ixvars, dbvars, cvars, pvars, svars>>

\* i.Merge(o, cfg, ui, diffOnly)
DoMerge ==
    /\ nops < MaxOps
    /\ \E port \in Ports : \E diffOnly \in BOOLEAN :
         LET r == Merge(md, other, cfg, diffOnly, port.policy, port.failAt) IN
         /\ md' = r.md
         /\ call' = [NoCall EXCEPT !.op = "Merge", !.err = r.err, !.asked = r.asked,
                                   !.failed = r.failed, !.diffOnly = diffOnly]
    /\ prevmd' = md
    /\ nops' = nops + 1
    /\ UNCHANGED <<cfg, ncleans, other, ixvars, dbvars, cvars, pvars, svars>>

GIdle == other = NoRecord /\ call = NoCall /\ nops = 0

MetaInit ==
    /\ md \in LocalRecords
    /\ cfg = ReadmeAliases
    /\ other \in OnlineRecords(cfg)
    /\ ncleans = 0
    /\ prevmd = md
    /\ call = NoCall
    /\ nops = 0

MetaNext == DoSet \/ DoGet \/ DoCleanRecord \/ DoMergeField \/ DoMerge

(***************************************************************************)
(* book.Metadata: IsSimilar                                                *)
(***************************************************************************)
IsSimilar_AnyISBN(i, o) ==
    IF i.ISBN = o.ISBN THEN TRUE
    ELSE IF Author(i) = Author(o) /\ Title(i) = Title(o) THEN TRUE
    ELSE FALSE

\* Metadata.IsSimilar
IsSimilar(i, o) ==
    IF i.ISBN # Empty /\ o.ISBN # Empty /\ i.ISBN = o.ISBN THEN TRUE
    ELSE IF Author(i) = Author(o) /\ Title(i) = Title(o) THEN TRUE
    ELSE FALSE

\* The records compared: with and without ISBN, authors and title; one
\* author list is a single name that reads like the two names of another.
SimISBNs == {Empty, cleanISBN(TestISBN)[1], <<"9", "7", "8", "0", "3", "4", "0", "8", "3", "9", "9", "3", "5">>}
SimAuthors ==
    { <<>>,
      << unknown >>,
      << <<"Iain", SP, "Banks">> >>,
      << <<"Iain", SP, "Banks">>, <<"Richard", SP, "Morgan">> >>,
      << <<"Iain", SP, "Banks", COMMA, SP, "Richard", SP, "Morgan">> >> }
SimTitles == {Empty, <<"Dune">>, <<"Excession">>}
SimRecords ==
    {[NoRecord EXCEPT !.ISBN = n, !.Authors = a, !.BookTitle = t, !.Publisher = p] :
        n \in SimISBNs, a \in SimAuthors, t \in SimTitles, p \in {Empty, <<"Tor">>}}

\* i.IsSimilar(o)
ApplyIsSimilar ==
    /\ arg \in SimRecords \X SimRecords
    /\ out = <<>>
    /\ out' = <<IsSimilar(arg[1], arg[2])>>
    /\ UNCHANGED <<arg, ixvars, dbvars, cvars, mvars, gvars, svars>>

(***************************************************************************)
(* index.Index: Rebuild                                                    *)
(***************************************************************************)
\* the most records Rebuild is handed
MaxAll == 2

\* A record handed to Rebuild: its full path and the revision of its fields.
GenericBooks == [id : Ids, rev : Revs]
AllLists == SeqsUpTo(GenericBooks, MaxAll)

RemoveAll_KeepDocs(ix) == ix
\* os.RemoveAll(i.Path): the index storage is gone, and every document.
RemoveAll(ix) == EmptyMap

\* books[b.FullPath()] = b for the records of all, in order: under a path the
\* last record with that path stays.
ByFullPath(all) ==
    [k \in Ids |->
        LET at == {n \in 1..Len(all) : all[n].id = k}
        IN  IF at = {} THEN NoDoc
            ELSE all[CHOOSE n \in at : \A m \in at : m <= n].rev]

\* The loop of Index.add after it has run index.Index on the keys of done.
Indexed(ix, bks, done) == [k \in Ids |-> IF k \in done THEN bks[k] ELSE ix[k]]

\* Index.Rebuild(all): what it returned is appended to out.
Rebuild ==
    /\ out = <<>>
    /\ \E all \in AllLists :
        /\ arg' = all
        /\ prior' = idx
        /\ \/ \* os.RemoveAll fails: Rebuild returns the error
              /\ out' = Append(out, "err")
              /\ UNCHANGED <<idx, idxExists>>
           \/ \* the storage is removed; add opens (creates) the index and
              \* visits the keys of the map in no fixed order
              LET bks == ByFullPath(all) IN
              \E done \in SUBSET Keys(bks) :
                  /\ idxExists' = open(FALSE)[1]
                  /\ idx' = Indexed(RemoveAll(idx), bks, done)
                  /\ out' = Append(out, IF done = Keys(bks) THEN "nil" ELSE "err")
    /\ UNCHANGED <<coll, upc, newB, modB, delB, pending, doneDel, doneAdd, uerr, qres, qerr,
                   dbvars, cvars, mvars, gvars, svars>>

\* Whatever the index holds before Rebuild: no storage, or any documents.
RbInit ==
    /\ idx \in BookMaps
    /\ idxExists \in BOOLEAN
    /\ ~idxExists => idx = EmptyMap
    /\ coll = EmptyMap /\ upc = "idle"
    /\ newB = EmptyMap /\ modB = EmptyMap /\ delB = EmptyMap
    /\ pending = {} /\ doneDel = {} /\ doneAdd = {} /\ prior = EmptyMap
    /\ uerr = "none" /\ qres = {} /\ qerr = "none"
    /\ arg = <<>> /\ out = <<>>

(***************************************************************************)
(* book.Metadata: SearchOnline                                             *)
(***************************************************************************)
\* errs > 10: the loop gives up
MaxInvalid == 10

TooMany_Later(n) == n > MaxInvalid + 2
TooMany(n) == n > MaxInvalid

\* What ui.GetInput gives the loop: <<input, scanErr>>.
Inputs ==
    {<<c, "nil">> : c \in {<<"a">>, <<"A">>, <<"e">>, <<"E">>, <<"x">>, Empty}}
    \cup {<<Empty, "scan error">>}
FieldLists == {<<>>, <<"title">>, <<"year", "isbn">>}

\* for _, f := range fields { MergeField }, from field number k on, then the
\* copy of the fields only the online record has, and Clean.
RECURSIVE MergeFields(_, _, _, _, _, _)
MergeFields(k, i, o, c, fs, port) ==
    IF k > Len(fs)
    THEN [md |-> Clean([i EXCEPT !.ImageURL = getLargeGRUrl(o.ImageURL),
                                 !.NumPages = o.NumPages,
                                 !.AverageRating = o.AverageRating], c),
          err |-> "nil"]
    ELSE LET next(r) == IF r.err # "nil" THEN [md |-> r.md, err |-> r.err]
                        ELSE MergeFields(k + 1, r.md, o, c, fs, port)
         IN  Only({next(r) : r \in {MergeField(i, o, fs[k], c, FALSE, port.policy,
                                               k = port.failAt)}})

\* SearchOnline is entered: getOnlineMetadata asks for an ISBN when the record
\* has none, and retrieves the online record or fails; when it fails the
\* record is merged with an empty one and SearchOnline returns.
SearchStart ==
    /\ spc = "idle"
    /\ prevmd' = md
    /\ \E isbn \in {Empty, cleanISBN(TestISBN)[1]} :
         LET i == IF md.ISBN = Empty THEN [md EXCEPT !.ISBN = isbn] ELSE md IN
         \/ \E port \in Ports :
               LET r == Merge(i, NoRecord, cfg, FALSE, port.policy, port.failAt) IN
               /\ md' = r.md
               /\ other' = NoRecord
               /\ sret' = r.err
               /\ merged' = merged + 1
               /\ spc' = "returned"
         \/ /\ md' = i
            /\ other' = Clean(OnlineRecord, cfg)
            /\ spc' = "loop"
            /\ UNCHANGED <<sret, merged>>
    /\ errs' = 0
    /\ UNCHANGED <<fields, choice, cfg, ncleans, call, nops, ixvars, dbvars, cvars, pvars>>

\* One iteration of the loop: an input is read and acted on.
SearchChoice ==
    /\ spc = "loop"
    /\ \E in \in Inputs :
         /\ choice' = in[1]
         /\ IF in[2] # "nil"
            THEN /\ sret' = in[2] /\ spc' = "returned"
                 /\ UNCHANGED <<md, errs, merged>>
            ELSE IF ToLower(in[1]) = <<"a">>
            THEN /\ sret' = "Abort" /\ spc' = "returned"
                 /\ UNCHANGED <<md, errs, merged>>
            ELSE IF ToLower(in[1]) = <<"e">>
            THEN \E port \in Ports :
                   LET r == IF Len(fields) = 0
                            THEN Merge(md, other, cfg, FALSE, port.policy, port.failAt)
                            ELSE MergeFields(1, md, other, cfg, fields, port) IN
                   /\ md' = r.md
                   /\ sret' = r.err
                   /\ merged' = merged + 1
                   /\ spc' = "returned"
                   /\ UNCHANGED errs
            ELSE /\ errs' = errs + 1
                 /\ IF TooMany(errs + 1)
                    THEN sret' = "Too many invalid choices." /\ spc' = "returned"
                    ELSE UNCHANGED <<sret, spc>>
                 /\ UNCHANGED <<md, merged>>
    /\ UNCHANGED <<fields, cfg, ncleans, prevmd, other, call, nops, ixvars, dbvars, cvars, pvars>>

SIdle ==
    /\ spc = "idle" /\ fields = <<>> /\ errs = 0 /\ choice = Empty
    /\ merged = 0 /\ sret = "none"

SearchInit ==
    /\ md \in LocalRecords
    /\ cfg = ReadmeAliases
    /\ ncleans = 0 /\ prevmd = md
    /\ other = NoRecord /\ call = NoCall /\ nops = 0
    /\ spc = "idle" /\ fields \in FieldLists /\ errs = 0 /\ choice = Empty
    /\ merged = 0 /\ sret = "none"

SearchNext == SearchStart \/ SearchChoice

(***************************************************************************)
(* book.Metadata: Set of what Get returns                                  *)
(***************************************************************************)
\* Records that Clean has normalised: with and without data, under each
\* configuration.
CleanedRecords ==
    {Clean(r, c) :
        r \in {NoRecord, EpubRecord, OnlineRecord,
               [EpubRecord EXCEPT !.Authors = << <<"Iain", SP, "Banks">>, <<"Richard", SP, "Morgan">> >>,
                                  !.Tags = << <<"fiction">>, <<"essay">>, <<"history">> >>],
               [OnlineRecord EXCEPT !.Tags = ManyTags, !.EditionYear = Empty,
                                    !.Series = <<[Name |-> <<"Culture">>, Index |-> <<"2", ".", "5">>],
                                                 [Name |-> <<"Dune">>, Index |-> Empty]>>]},
        c \in Configs}
FieldChoices == {MetadataFieldNames[k] : k \in 1..Len(MetadataFieldNames)}

\* i.Set(field, v) with v what i.Get(field) returned: keeping the local
\* value of a field, as MergeField does when the port chooses it.
ApplySetOfGet ==
    /\ arg \in CleanedRecords \X FieldChoices
    /\ out = <<>>
    /\ out' = <<Set(arg[1], arg[2], Get(arg[1], arg[2])[1])>>
    /\ UNCHANGED <<arg, ixvars, dbvars, cvars, mvars, gvars, svars>>

PIdle == arg = <<>> /\ out = <<>>

IxIdle ==
    /\ coll = EmptyMap /\ idx = EmptyMap /\ idxExists = FALSE
    /\ upc = "idle"
    /\ newB = EmptyMap /\ modB = EmptyMap /\ delB = EmptyMap
    /\ pending = {} /\ doneDel = {} /\ doneAdd = {} /\ prior = EmptyMap
    /\ uerr = "none" /\ qres = {} /\ qerr = "none"

IxInit == IxIdle

IxNext == HostUpdate \/ DeleteStep \/ AddStep \/ UpdateReturn \/ Query

\* The index and its host.
Init == IxInit /\ DbIdle /\ CIdle /\ MIdle /\ PIdle /\ GIdle /\ SIdle
Next == IxNext
Spec == Init /\ [][Next]_vars

\* The JSON database with one writer.
InitDB == DbInit /\ IxIdle /\ CIdle /\ MIdle /\ PIdle /\ GIdle /\ SIdle
SpecDB == InitDB /\ [][DbNext]_vars

\* Two writers saving to one path, with and without a host that serializes them.
InitSave2 == CInit /\ IxIdle /\ DbIdle /\ MIdle /\ PIdle /\ GIdle /\ SIdle
SpecSave2 == InitSave2 /\ [][CNext]_vars

\* Metadata records under repeated Clean.
InitClean == MInit /\ IxIdle /\ DbIdle /\ CIdle /\ PIdle /\ GIdle /\ SIdle
SpecClean == InitClean /\ [][MNext]_vars

\* A record under sequences of calls.
InitMeta == MetaInit /\ IxIdle /\ DbIdle /\ CIdle /\ PIdle /\ SIdle
SpecMeta == InitMeta /\ [][MetaNext]_vars

\* cleanISBN on strings.
InitISBN == arg \in ISBNStrings /\ out = <<>> /\ IxIdle /\ DbIdle /\ CIdle /\ MIdle /\ GIdle /\ SIdle
SpecISBN == InitISBN /\ [][ApplyCleanISBN]_vars

\* IsSimilar on pairs of records.
InitSimilar ==
    arg \in SimRecords \X SimRecords /\ out = <<>> /\ IxIdle /\ DbIdle /\ CIdle /\ MIdle /\ GIdle /\ SIdle
SpecSimilar == InitSimilar /\ [][ApplyIsSimilar]_vars

\* Rebuild of an index, whatever it holds.
InitRebuild == RbInit /\ DbIdle /\ CIdle /\ MIdle /\ GIdle /\ SIdle
SpecRebuild == InitRebuild /\ [][Rebuild]_vars

\* SearchOnline; the user answers every prompt sooner or later.
InitSearch == SearchInit /\ IxIdle /\ DbIdle /\ CIdle /\ PIdle
SpecSearch == InitSearch /\ [][SearchNext]_vars /\ WF_vars(SearchNext)

\* Set of what Get returns, on normalised records.
InitSetOfGet ==
    arg \in CleanedRecords \X FieldChoices /\ out = <<>> /\ IxIdle /\ DbIdle /\ CIdle /\ MIdle /\ GIdle /\ SIdle
SpecSetOfGet == InitSetOfGet /\ [][ApplySetOfGet]_vars

\* cleanTags on tag lists.
InitTags == arg \in TagLists /\ out = <<>> /\ IxIdle /\ DbIdle /\ CIdle /\ MIdle /\ GIdle /\ SIdle
SpecTags == InitTags /\ [][ApplyCleanTags]_vars
(***************************************************************************)
(* Properties of index.Index                                               *)
(***************************************************************************)
\* C1: in Update every index deletion comes before any index addition: once
\* index.Index has run on some id, index.Delete has run on every id of
\* deleted and of modified, and so an id of modified that has been added
\* again was deleted first.
C1_DeleteBeforeAdd ==
    doneAdd # {} =>
        /\ doneDel = Keys(delB) \cup Keys(modB)
        /\ \A k \in Keys(modB) : k \in doneAdd => k \in doneDel
\* An Update with books of all three kinds has returned nil.
C1_Witness ==
    /\ upc = "done" /\ uerr = "nil"
    /\ Keys(newB) # {} /\ Keys(modB) # {} /\ Keys(delB) # {}
    /\ doneAdd = Keys(newB) \cup Keys(modB)

\* C2: from an empty collection and an empty index, whenever every Update so
\* far was called with the exact diff and returned nil, the index holds for
\* each record of the collection one document under its id with its current
\* field values and no document for any other id, and Query returns no id of
\* a record absent from the collection.
C2_IndexMirrorsCollection ==
    upc \in {"idle", "done"} =>
        /\ \A k \in Ids : idx[k] = coll[k]
        /\ qres \subseteq Keys(coll)
\* After some Updates a Query has returned hits while records are absent
\* from the collection and others are there in their second revision.
C2_Witness ==
    /\ upc = "idle" /\ uerr = "nil" /\ qerr = "nil" /\ qres # {}
    /\ \E k \in Ids : coll[k] = NoDoc
    /\ \E k \in Ids : coll[k] = "r2"
    /\ qres # Keys(coll)

\* What C3 asks of the arguments: disjoint maps, modified and deleted within
\* the prior index content, new outside it.
UpdatePre(p, n, m, d) ==
    /\ Keys(n) \cap Keys(m) = {} /\ Keys(n) \cap Keys(d) = {} /\ Keys(m) \cap Keys(d) = {}
    /\ (Keys(m) \cup Keys(d)) \subseteq Keys(p)
    /\ Keys(n) \cap Keys(p) = {}
\* C3: when Update returns nil for such arguments the index holds exactly the
\* ids (prior \ deleted) \cup new, the new and the modified ids with the
\* values handed in, every other id with the document it had.
C3_UpdateResult ==
    (upc = "done" /\ UpdatePre(prior, newB, modB, delB)) =>
        /\ Keys(idx) = (Keys(prior) \ Keys(delB)) \cup Keys(newB)
        /\ \A k \in Keys(newB) : idx[k] = newB[k]
        /\ \A k \in Keys(modB) : idx[k] = modB[k]
        /\ \A k \in Keys(idx) \ (Keys(newB) \cup Keys(modB)) : idx[k] = prior[k]
\* The example: prior {B, C, D}, new {A}, modified {B}, deleted {C} gives
\* exactly {A, B, D}; a query finds A and B and does not find C.
C3_Witness ==
    /\ upc = "done"
    /\ Keys(prior) = {2, 3, 4} /\ Keys(newB) = {1} /\ Keys(modB) = {2} /\ Keys(delB) = {3}
    /\ modB[2] # prior[2]
    /\ Keys(idx) = {1, 2, 4}
    /\ {1, 2} \subseteq Matches(idx, NoDoc) /\ 3 \notin Matches(idx, NoDoc)

(***************************************************************************)
(* Properties of db.JSONDB with one writer                                 *)
(***************************************************************************)
\* C4: a Save of the collection a successful Save has already written to the
\* same path, the collection unchanged since, reports hasSaved = false,
\* returns no error and leaves the bytes of the file as they were; and so
\* does every further one.
C4_SaveIdempotent ==
    (res.op = "Save" /\ res.repeat) =>
        /\ ~res.hasSaved /\ res.err = "nil" /\ res.same
        /\ saved[res.path]
\* A non-empty collection has been saved a second time.
C4_Witness ==
    /\ res.op = "Save" /\ res.repeat /\ books # <<>>
    /\ disk[res.path] = File(MarshalIndent(books)[1])

C6_SaveErrorKeepsSnapshot ==
    (res.op = "Save" /\ res.err # "nil") => res.same
\* What holds of the code: a Save that returns an error without having
\* called WriteFile leaves the file as it was, and WriteFile is only called
\* with a serialization.
C6_NoWriteBeforeSerialization ==
    res.op = "Save" =>
        /\ (res.err # "nil" /\ ~res.wrote) => res.same
        /\ res.wrote => MarshalIndent(books)[2] = "nil"

\* C8: Equals is true exactly when both files are read and hold the same
\* bytes, or both files do not exist.
C8_EqualsIff ==
    res.op = "Equals" =>
        (res.eq <=>
            \/ /\ disk[res.path].st = "file" /\ disk[res.other].st = "file"
               /\ disk[res.path].b = disk[res.other].b
            \/ /\ disk[res.path].st = "missing" /\ disk[res.other].st = "missing")
\* Two stores on two files that both do not exist compare equal.
C8_Witness ==
    /\ res.op = "Equals" /\ res.path # res.other /\ res.eq
    /\ disk[res.path].st = "missing" /\ disk[res.other].st = "missing"

\* C9: a Load with no snapshot file returns nil and leaves the collection as
\* it was; a Load of a file that cannot be read, or whose bytes do not parse,
\* returns an error; no Load changes a file.
C9_Load ==
    [][res'.op = "Load" =>
        /\ disk' = disk
        /\ disk[res'.path].st = "missing" => (res'.err = "nil" /\ books' = books)
        /\ disk[res'.path].st = "unreadable" => res'.err # "nil"
        /\ (disk[res'.path].st = "file" /\ ~ValidJSON(disk[res'.path].b)) => res'.err # "nil"
      ]_vars
\* A first run: a Load of a missing file has returned nil to a host whose
\* collection holds books.
C9_Witness ==
    /\ res.op = "Load" /\ res.err = "nil"
    /\ disk[res.path].st = "missing" /\ books # <<>>
(***************************************************************************)
(* Properties of Save with two writers                                     *)
(***************************************************************************)
\* C7: when the host serializes the calls, a Save that returns without error
\* leaves the snapshot holding the collection it was given; when it does not,
\* the steps of two Saves interleave so that one returns without error while
\* the snapshot does not hold its collection (the witness).
C7_SerializedSaveHolds ==
    (hostLock /\ ret.w # "nobody" /\ ret.err = "nil") => ret.file = "mine"
\* A lost update: without serialization a Save has just returned no error,
\* reporting no write, and the snapshot holds the other writer's collection.
C7_Witness ==
    /\ ~hostLock /\ ret.w # "nobody" /\ ret.err = "nil" /\ ~ret.hasSaved
    /\ ret.file = "another"
(***************************************************************************)
(* Properties of book.Metadata                                             *)
(***************************************************************************)
\* C10: Clean is idempotent: running Clean on a record that Clean has already
\* normalised leaves every field of the record as it was.
C10_CleanIdempotent ==
    ncleans >= 2 => md = prevmd

\* The part of it that holds on the records and configurations above: the
\* second Clean changes no field other than Language.
C10_OtherFieldsIdempotent ==
    ncleans >= 2 => [md EXCEPT !.Language = Empty] = [prevmd EXCEPT !.Language = Empty]

\* C11: cleanTags is idempotent: a second call, on the result of the first,
\* returns that result unchanged.
C11_CleanTagsIdempotent ==
    Len(out) >= 2 => out[2] = out[1]

\* The part of it that holds: when no name of the argument has surrounding
\* whitespace, the second call returns the result of the first.
C11_IdempotentOnTrimmedNames ==
    (Len(out) >= 2 /\ \A k \in 1..Len(arg) : arg[k] = TrimSpace(arg[k])) => out[2] = out[1]

\* C12: the result of cleanTags is its argument with each known variant
\* replaced by its canonical alias, the tags whose name contains a forbidden
\* word dropped, the names trimmed, later duplicates collapsed, the order
\* kept, cut to the first 10 survivors: at most 10 tags, no name twice, no
\* forbidden word in a name; [sci-fi, tbr, space-opera, sci-fi] gives
\* [science-fiction, space-opera].
C12_CleanTagsResult ==
    Len(out) >= 1 =>
        LET r == out[1]
            canon == [k \in 1..Len(arg) |->
                        IF \E m \in DOMAIN tagAliases : \E v \in 1..Len(tagAliases[m]) :
                                tagAliases[m][v] = arg[k]
                        THEN CHOOSE m \in DOMAIN tagAliases :
                                \E v \in 1..Len(tagAliases[m]) : tagAliases[m][v] = arg[k]
                        ELSE arg[k]]
            bad(k) == \E f \in 1..Len(forbiddenTags) : Contains(canon[k], forbiddenTags[f])
            kept == {k \in 1..Len(arg) :
                        /\ ~bad(k)
                        /\ \A j \in 1..(k - 1) :
                              bad(j) \/ TrimSpace(canon[j]) # TrimSpace(canon[k])}
            nth(n) == CHOOSE k \in kept : Cardinality({j \in kept : j <= k}) = n
        IN  /\ Len(r) = IF Cardinality(kept) > 10 THEN 10 ELSE Cardinality(kept)
            /\ \A n \in 1..Len(r) : r[n] = TrimSpace(canon[nth(n)])
            /\ Len(r) <= 10
            /\ \A n1, n2 \in 1..Len(r) : n1 # n2 => r[n1] # r[n2]
            /\ \A n \in 1..Len(r) : \A f \in 1..Len(forbiddenTags) :
                    ~Contains(r[n], forbiddenTags[f])
            /\ arg = SpecExampleTags => r = << <<"science-fiction">>, <<"space-opera">> >>

\* A forbidden tag, a repeated tag and twelve distinct tags: the first ten of
\* the distinct tags come back.
C12_Witness ==
    /\ arg = << <<"tbr">>, <<"t1">> >> \o ManyTags
    /\ Len(out) >= 1
    /\ out[1] = SubSeq(ManyTags, 1, 10)

\* C13: cleanISBN keeps the digits of its argument; when they start with 978
\* or 979 and are at least 13 it returns the first 13 of them and no error;
\* when they are fewer than 13 or start otherwise it returns an error and an
\* empty ISBN; "9-78-0-4--410-13-593" gives "9780441013593".
C13_CleanISBN ==
    out # <<>> =>
        LET digits == SelectSeq(arg, LAMBDA ch : ch \in Digits)
            prefixed == Len(digits) >= 3 /\ digits[1] = "9" /\ digits[2] = "7"
                        /\ digits[3] \in {"8", "9"}
            isbn == out[1][1]
            err == out[1][2]
        IN  /\ (prefixed /\ Len(digits) >= 13) =>
                   (err = "nil" /\ isbn = [k \in 1..13 |-> digits[k]])
            /\ (~prefixed \/ Len(digits) < 13) => (err # "nil" /\ isbn = <<>>)
            /\ arg = TestISBN =>
                   isbn = <<"9", "7", "8", "0", "4", "4", "1", "0", "1", "3", "5", "9", "3">>

\* More than 13 digits after a 978 prefix, with a dash between: the first 13.
C13_Witness ==
    /\ arg = <<"9", "7", "8", "-", "0", "1", "3", "5", "9", "3", "0", "1", "3", "5", "9", "3">>
    /\ out = << <<  <<"9", "7", "8", "0", "1", "3", "5", "9", "3", "0", "1", "3", "5">>, "nil">> >>

\* C16: after Clean, with any alias configuration and for every record,
\* Category, Type and Genre are not empty, Category is a value of the category
\* enum or the unknown sentinel, and Type is a value of the type enum or the
\* unknown sentinel.
C16_Classified ==
    ncleans >= 1 =>
        /\ md.Category # Empty /\ md.Type # Empty /\ md.Genre # Empty
        /\ md.Category = unknown \/ StringInSlice(md.Category, validCategories)
        /\ md.Type = unknown \/ StringInSlice(md.Type, validTypes)

\* The part of it that holds: the three fields are never empty, Category is
\* in its enum, and Type is in its enum when no tag alias of the
\* configuration has a value of the type enum among its variants.
C16_ClassifiedUnlessTypeAliased ==
    ncleans >= 1 =>
        /\ md.Category # Empty /\ md.Type # Empty /\ md.Genre # Empty
        /\ md.Category = unknown \/ StringInSlice(md.Category, validCategories)
        /\ (\A m \in DOMAIN cfg.TagAliases : \A v \in 1..Len(cfg.TagAliases[m]) :
                ~StringInSlice(cfg.TagAliases[m][v], validTypes))
              => (md.Type = unknown \/ StringInSlice(md.Type, validTypes))

(***************************************************************************)
(* Properties of a record under sequences of calls                         *)
(***************************************************************************)
\* C14: starting from a record with an empty ISBN, after any sequence of
\* Set, Clean, MergeField and Merge the ISBN of the record is empty or is 13
\* digits that begin with 978 or 979; and a Set of the ISBN with a value that
\* is not valid returns an error and leaves the ISBN as it was.
C14_ISBNValid ==
    /\ \/ md.ISBN = <<>>
       \/ /\ Len(md.ISBN) = 13
          /\ \A k \in 1..13 : md.ISBN[k] \in Digits
          /\ md.ISBN[1] = "9" /\ md.ISBN[2] = "7" /\ md.ISBN[3] \in {"8", "9"}
    /\ (call.op = "Set" /\ call.field \in {"isbn", "ISBN"}) =>
          LET digits == SelectSeq(call.value, LAMBDA ch : ch \in Digits)
              valid == /\ Len(digits) >= 13
                       /\ digits[1] = "9" /\ digits[2] = "7" /\ digits[3] \in {"8", "9"}
          IN  ~valid => (call.err # "nil" /\ md.ISBN = prevmd.ISBN)

\* A valid ISBN is stored, then a Set of the ISBN is rejected.
C14_Witness ==
    /\ call.op = "Set" /\ call.field = "ISBN" /\ call.value = FreeText
    /\ call.err # "nil"
    /\ md.ISBN = <<"9", "7", "8", "0", "4", "4", "1", "0", "1", "3", "5", "9", "3">>

\* C15: after Clean both years are non-empty: an empty year has taken the
\* value of the other year when that one was not empty, and both are "XXXX"
\* when both were empty; and, the years having been set by successful Set
\* calls only, each year is 4 digits or "XXXX".
C15_YearsAfterClean ==
    call.op = "Clean" =>
        /\ md.OriginalYear # <<>> /\ md.EditionYear # <<>>
        /\ prevmd.OriginalYear # <<>> => md.OriginalYear = prevmd.OriginalYear
        /\ prevmd.EditionYear # <<>> => md.EditionYear = prevmd.EditionYear
        /\ (prevmd.OriginalYear = <<>> /\ prevmd.EditionYear # <<>>) =>
               md.OriginalYear = prevmd.EditionYear
        /\ (prevmd.EditionYear = <<>> /\ prevmd.OriginalYear # <<>>) =>
               md.EditionYear = prevmd.OriginalYear
        /\ (prevmd.OriginalYear = <<>> /\ prevmd.EditionYear = <<>>) =>
               (md.OriginalYear = <<"X", "X", "X", "X">> /\ md.EditionYear = <<"X", "X", "X", "X">>)
        /\ \A y \in {md.OriginalYear, md.EditionYear} :
               \/ y = <<"X", "X", "X", "X">>
               \/ Len(y) = 4 /\ \A k \in 1..4 : y[k] \in Digits

\* The part of it that holds: after Clean no year is empty, a year that was
\* not empty is kept, an empty year takes the other year or "XXXX".
C15_YearsDefaulted ==
    call.op = "Clean" =>
        /\ md.OriginalYear # <<>> /\ md.EditionYear # <<>>
        /\ prevmd.OriginalYear # <<>> => md.OriginalYear = prevmd.OriginalYear
        /\ prevmd.EditionYear # <<>> => md.EditionYear = prevmd.EditionYear
        /\ (prevmd.OriginalYear = <<>> /\ prevmd.EditionYear # <<>>) =>
               md.OriginalYear = prevmd.EditionYear
        /\ (prevmd.EditionYear = <<>> /\ prevmd.OriginalYear # <<>>) =>
               md.EditionYear = prevmd.OriginalYear
        /\ (prevmd.OriginalYear = <<>> /\ prevmd.EditionYear = <<>>) =>
               (md.OriginalYear = <<"X", "X", "X", "X">> /\ md.EditionYear = <<"X", "X", "X", "X">>)

\* C17: a Set that returns an error (a year that is no integer, an invalid
\* ISBN, an unrecognized category or type, a series entry that does not
\* parse, an unknown field name) leaves every field of the record as it was
\* before the call; a Get with an unknown field name returns an error and
\* changes nothing.
C17_FailedSetChangesNothing ==
    /\ (call.op = "Set" /\ call.err # "nil") => md = prevmd
    /\ (call.op = "Get" /\ call.field = "bogus") => (call.err # "nil" /\ md = prevmd)

\* The part of it that holds: a Set that returns an error changes no field
\* but Series, and none at all when the field set is not the series; a Get
\* with an unknown field name returns an error and changes nothing.
C17_FailedSetKeepsAllButSeries ==
    /\ (call.op = "Set" /\ call.err # "nil") =>
           /\ [md EXCEPT !.Series = <<>>] = [prevmd EXCEPT !.Series = <<>>]
           /\ call.field # "series" => md = prevmd
    /\ (call.op = "Get" /\ call.field = "bogus") => (call.err # "nil" /\ md = prevmd)

\* C18: when the decision port fails or the setter rejects the chosen value
\* for a field, Merge returns that error at once: the port is not invoked
\* for any later field, the enrichment-only fields (cover image, page count,
\* average rating) are not copied, and no field is skipped: the port was
\* last invoked for the field that failed, and, when all fields are merged
\* and not the differing ones only, for every field before it.
C18_MergeStopsAtFirstError ==
    (call.op = "Merge" /\ call.err # "nil") =>
        LET pos(f) == CHOOSE k \in 1..Len(MetadataFieldNames) : MetadataFieldNames[k] = f
        IN  /\ \E k \in 1..Len(MetadataFieldNames) : MetadataFieldNames[k] = call.failed
            /\ call.asked # <<>>
            /\ call.asked[Len(call.asked)] = call.failed
            /\ \A n \in 1..Len(call.asked) : pos(call.asked[n]) <= pos(call.failed)
            /\ ~call.diffOnly =>
                   call.asked = SubSeq(MetadataFieldNames, 1, pos(call.failed))
            /\ md.ImageURL = prevmd.ImageURL
            /\ md.NumPages = prevmd.NumPages
            /\ md.AverageRating = prevmd.AverageRating

\* The port fails at the seventh field, language: it was invoked for the
\* seven first fields only, and the page count of the online record, which
\* has one, is not copied.
C18_Witness ==
    /\ call.op = "Merge" /\ call.err = "port error" /\ call.failed = "language"
    /\ call.asked = SubSeq(MetadataFieldNames, 1, 7)
    /\ other.NumPages # Empty /\ md.NumPages = Empty

(***************************************************************************)
(* Properties of IsSimilar                                                 *)
(***************************************************************************)
\* C19: IsSimilar(a, b) is true when a and b have the same ISBN and it is
\* not empty, whatever their authors and titles, or when their author
\* strings are equal and their titles are equal; in every other case it is
\* false; a record with an author and a title is not similar to the empty
\* record.
C19_IsSimilar ==
    (out # <<>> /\ arg \in SimRecords \X SimRecords) =>
        LET a == arg[1]
            b == arg[2]
            str(r) == IF r.Authors = <<>> THEN <<"Unknown">> ELSE Join(r.Authors, <<",", " ">>)
            sameISBN == a.ISBN # <<>> /\ a.ISBN = b.ISBN
            sameWork == str(a) = str(b) /\ a.BookTitle = b.BookTitle
        IN  /\ out[1] = (sameISBN \/ sameWork)
            /\ (a.Authors # <<>> /\ a.BookTitle # <<>> /\ b = NoRecord) => out[1] = FALSE

\* One ISBN, other authors and another title: similar.
C19_Witness ==
    /\ Len(arg) = 2
    /\ arg[1] = [NoRecord EXCEPT !.ISBN = cleanISBN(TestISBN)[1], !.BookTitle = <<"Dune">>]
    /\ arg[2] = [NoRecord EXCEPT !.ISBN = cleanISBN(TestISBN)[1], !.BookTitle = <<"Excession">>,
                                 !.Authors = << <<"Iain", SP, "Banks">> >>]
    /\ out = <<TRUE>>

(***************************************************************************)
(* Properties of Rebuild                                                   *)
(***************************************************************************)
\* C20: after a Rebuild(all) that returned no error, whatever the index held
\* before, the index holds one document for each distinct full path of the
\* records of all, a document of a record of all with that path, and no
\* other document: the documents of records that are not in all are gone.
C20_RebuildHoldsExactlyAll ==
    (out # <<>> /\ out[Len(out)] = "nil") =>
        /\ idxExists
        /\ {k \in Ids : idx[k] # NoDoc} = {arg[n].id : n \in 1..Len(arg)}
        /\ \A k \in Ids : idx[k] # NoDoc =>
               \E n \in 1..Len(arg) : arg[n].id = k /\ arg[n].rev = idx[k]

\* The index held documents under the paths 1 and 2; all names the path 2
\* twice: after Rebuild the index holds one document, under 2.
C20_Witness ==
    /\ out = <<"nil">>
    /\ prior = [EmptyMap EXCEPT ![1] = "r1", ![2] = "r1"]
    /\ arg = <<[id |-> 2, rev |-> "r1"], [id |-> 2, rev |-> "r2"]>>
    /\ idx = [EmptyMap EXCEPT ![2] = "r2"]

(***************************************************************************)
(* Properties of Merge and MergeField                                      *)
(***************************************************************************)
\* C21: Merge invokes the decision port for the fields in one fixed order on
\* every run, and that order is: title, author, original year, edition year,
\* publisher, description, language, category, type, genre, tags, series,
\* ISBN.
C21_MergeAsksInStatedOrder ==
    call.op = "Merge" =>
        LET stated == <<"title", "author", "year", "edition_year", "publisher",
                        "description", "language", "category", "type", "genre",
                        "tags", "series", "isbn">>
            pos(f) == CHOOSE k \in 1..Len(stated) : stated[k] = f
        IN  \A m, n \in 1..Len(call.asked) :
                m < n => pos(call.asked[m]) < pos(call.asked[n])

\* The part of it that holds: the order is the same on every run, and it is
\* that of MetadataFieldNames, with the author before the title.
C21_MergeAsksInFieldNamesOrder ==
    call.op = "Merge" =>
        LET pos(f) == CHOOSE k \in 1..Len(MetadataFieldNames) : MetadataFieldNames[k] = f
        IN  /\ \A m, n \in 1..Len(call.asked) :
                   m < n => pos(call.asked[m]) < pos(call.asked[n])
            /\ (~call.diffOnly /\ call.err = "nil") => call.asked = MetadataFieldNames

\* C22: in diff-only mode, for a field whose Get value is the same in the
\* local and in the online record, MergeField does not invoke the decision
\* port, returns no error and leaves the whole local record as it was; when
\* diff-only is off, or the values differ, the port is invoked once for the
\* field.
C22_DiffOnlySkipsEqualFields ==
    (call.op = "MergeField" /\ call.field # "bogus") =>
        LET equal == Get(prevmd, call.field)[1] = Get(other, call.field)[1]
        IN  /\ (call.diffOnly /\ equal) =>
                   (call.asked = <<>> /\ call.err = "nil" /\ md = prevmd)
            /\ ~(call.diffOnly /\ equal) => call.asked = <<call.field>>

\* The two records have the same title: in diff-only mode MergeField of the
\* title returns at once.
C22_Witness ==
    /\ call.op = "MergeField" /\ call.field = "title" /\ call.diffOnly
    /\ prevmd.BookTitle = <<"Dune">> /\ other.BookTitle = <<"Dune">>
    /\ call.asked = <<>> /\ call.err = "nil" /\ md = prevmd

\* C23: after every Merge that returns no error, whatever the answers of the
\* port and the diff-only flag, the page count and the average rating of the
\* local record are those of the online record and its cover image is the
\* large version of the online record's; and Clean has run after the copy:
\* the years, the category, the type and the genre are not empty and the
\* publisher is trimmed.
C23_MergeCopiesEnrichmentFields ==
    (call.op = "Merge" /\ call.err = "nil") =>
        /\ md.NumPages = other.NumPages
        /\ md.AverageRating = other.AverageRating
        /\ md.ImageURL = [k \in 1..Len(other.ImageURL) |->
                             IF other.ImageURL[k] = "m/" THEN "l/" ELSE other.ImageURL[k]]
        /\ md.OriginalYear # <<>> /\ md.EditionYear # <<>>
        /\ md.Category # <<>> /\ md.Type # <<>> /\ md.Genre # <<>>
        /\ md.Publisher = TrimSpace(md.Publisher)

\* Every field was put to the port, which chose the online value each time:
\* the local record has the page count, the rating and the large cover of
\* the online record.
C23_Witness ==
    /\ call.op = "Merge" /\ call.err = "nil" /\ ~call.diffOnly
    /\ call.asked = MetadataFieldNames
    /\ prevmd.NumPages = <<>> /\ md.NumPages = <<"320">> /\ md.AverageRating = <<"4.1">>
    /\ md.ImageURL = <<"http://gr/", "l/", "1.jpg">>

(***************************************************************************)
(* Properties of SearchOnline                                              *)
(***************************************************************************)
\* C24: the "[E]dit or [A]bort" loop of SearchOnline always terminates: it
\* ends on the first valid choice or input error, and it accepts at most 10
\* invalid answers: one more ends SearchOnline with the error "Too many
\* invalid choices." and the record is not merged.
C24_LoopTerminates ==
    /\ <>(spc = "returned")
    /\ [](spc = "loop" => errs <= 10)
    /\ [](sret = "Too many invalid choices." => (errs = 11 /\ merged = 0))
    /\ [][(spc = "loop" /\ choice' \in {<<"a">>, <<"A">>, <<"e">>, <<"E">>})
              => spc' = "returned"]_vars
    /\ [][(spc = "loop" /\ spc' = "loop") => errs' = errs + 1]_vars

\* Eleven invalid answers: SearchOnline has given up without merging.
C24_Witness ==
    /\ spc = "returned" /\ sret = "Too many invalid choices."
    /\ errs = 11 /\ merged = 0 /\ choice = <<"x">>

(***************************************************************************)
(* Properties of Set and Get                                               *)
(***************************************************************************)
\* C25: Set on the tags lower-cases the comma-separated value, replaces the
\* whole previous tag set with it, and leaves the tag set cleaned: right
\* after Set the tags are at most 10, none has a forbidden word in its name
\* and none is a known variant of an alias.
C25_SetTagsLeavesTagsClean ==
    (call.op = "Set" /\ call.field = "tags") =>
        LET names == Split(ToLower(call.value), ",")
        IN  /\ call.err = "nil"
            /\ \A k \in 1..Len(md.Tags) : \E n \in 1..Len(names) :
                   md.Tags[k] = TrimSpace(names[n])
            /\ Len(md.Tags) <= 10
            /\ \A k \in 1..Len(md.Tags) : \A f \in 1..Len(forbiddenTags) :
                   ~Contains(md.Tags[k], forbiddenTags[f])
            /\ \A k \in 1..Len(md.Tags) : \A m \in DOMAIN tagAliases :
                   \A v \in 1..Len(tagAliases[m]) : tagAliases[m][v] # md.Tags[k]

\* The part of it that holds: Set on the tags returns no error and leaves as
\* tags the lower-cased, trimmed names of the value, each once, in order, and
\* no tag of the previous set that the value does not name.
C25_SetTagsReplacesTags ==
    (call.op = "Set" /\ call.field = "tags") =>
        LET names == Split(ToLower(call.value), ",")
        IN  /\ call.err = "nil"
            /\ \A k \in 1..Len(md.Tags) : \E n \in 1..Len(names) :
                   md.Tags[k] = TrimSpace(names[n])
            /\ \A n \in 1..Len(names) : \E k \in 1..Len(md.Tags) :
                   md.Tags[k] = TrimSpace(names[n])
            /\ \A j, k \in 1..Len(md.Tags) : j # k => md.Tags[j] # md.Tags[k]
            /\ [md EXCEPT !.Tags = <<>>] = [prevmd EXCEPT !.Tags = <<>>]

\* C26: Set on the series with a comma list of which some entries do not
\* parse returns no error: each such entry is skipped and every entry that
\* parses is stored, in order.
C26_SetSeriesSkipsUnparsable ==
    (call.op = "Set" /\ call.field = "series") =>
        LET entries == IF call.value = <<>> THEN <<>> ELSE Split(call.value, ",")
            parses(e) == AddFromString(<<>>, e)[2] = "nil"
            good == SelectSeq(entries, parses)
        IN  /\ call.err = "nil"
            /\ md.Series = AddSeries(<<>>, good)[1]

\* What holds instead: Set on the series returns an error when an entry does
\* not parse, with the entries before that one as the series of the record;
\* it returns no error and stores every entry when all parse.
C26_SetSeriesStopsAtUnparsable ==
    (call.op = "Set" /\ call.field = "series") =>
        LET entries == IF call.value = <<>> THEN <<>> ELSE Split(call.value, ",")
            parses(e) == AddFromString(<<>>, e)[2] = "nil"
            bad == {k \in 1..Len(entries) : ~parses(entries[k])}
            first == IF bad = {} THEN Len(entries) + 1
                     ELSE CHOOSE k \in bad : \A l \in bad : k <= l
        IN  /\ call.err = "nil" <=> bad = {}
            /\ md.Series = AddSeries(<<>>, SubSeq(entries, 1, first - 1))[1]

\* C27: for every field of a record that Clean has normalised,
\* Set(field, Get(field)) returns no error and leaves the record as it was:
\* keeping the local value of a field, the "XXXX" year, the "Unknown"
\* sentinels and an empty ISBN included, never aborts a merge.
C27_SetOfGetChangesNothing ==
    (out # <<>> /\ arg \in CleanedRecords \X FieldChoices) =>
        (out[1][2] = "nil" /\ out[1][1] = arg[1])

\* The part of it that holds: Set(field, Get(field)) returns no error and
\* changes nothing for a field that holds a value; it returns an error, and
\* changes nothing, for a year that is "XXXX", a category or a type that is
\* "Unknown" and an empty ISBN.  (With no author the authors become
\* ["Unknown"], with no tag the tags become one tag with an empty name.)
C27_SetOfGetKeepsValues ==
    (out # <<>> /\ arg \in CleanedRecords \X FieldChoices) =>
        LET rec == arg[1]
            f == arg[2]
            v == Get(rec, f)[1]
            rejected == \/ f \in {"year", "edition_year"} /\ v = <<"X", "X", "X", "X">>
                        \/ f \in {"category", "type"} /\ v = <<"Unknown">>
                        \/ f = "isbn" /\ v = <<>>
            altered == \/ f = "author" /\ rec.Authors = <<>>
                       \/ f = "tags" /\ rec.Tags = <<>>
        IN  /\ rejected => (out[1][2] # "nil" /\ out[1][1] = rec)
            /\ (~rejected /\ ~altered) => (out[1][2] = "nil" /\ out[1][1] = rec)
            /\ (f = "author" /\ rec.Authors = <<>>) =>
                   (out[1][2] = "nil" /\ out[1][1].Authors = << <<"Unknown">> >>)

(***************************************************************************)
(* Properties of a failed Update                                           *)
(***************************************************************************)
\* C28: when a step of Index.Update fails, Update returns that error at once
\* without running the later steps, and it does not undo the steps already
\* done: the index is as the deletions and additions that have run left it;
\* a failure while adding leaves every id of deleted and modified that was
\* not added again out of the index.
C28_FailedUpdateKeepsStepsDone ==
    upc = "failed" =>
        LET allDel == Keys(delB) \cup Keys(modB)
            added(k) == IF newB[k] # NoDoc THEN newB[k] ELSE modB[k]
        IN  /\ uerr = "err"
            \* the steps after the failed one have not run
            /\ Keys(delB) \ doneDel # {} => (doneDel \subseteq Keys(delB) /\ doneAdd = {})
            /\ allDel \ doneDel # {} => doneAdd = {}
            /\ Keys(newB) \ doneAdd # {} => doneAdd \subseteq Keys(newB)
            /\ doneDel \cup doneAdd # allDel \cup Keys(newB) \cup Keys(modB)
                  \/ doneAdd # Keys(newB) \cup Keys(modB)
            \* the steps done are not undone
            /\ \A k \in Ids :
                  idx[k] = IF k \in doneAdd THEN added(k)
                           ELSE IF k \in doneDel THEN NoDoc
                           ELSE prior[k]
            \* a failure while adding
            /\ doneDel = allDel =>
                  \A k \in allDel \ doneAdd : idx[k] = NoDoc

\* An add has failed: a modified record, which is in the collection and was
\* in the index before, is in the index no more.
C28_Witness ==
    /\ upc = "failed" /\ uerr = "err"
    /\ Keys(delB) # {} /\ doneDel = Keys(delB) \cup Keys(modB)
    /\ \E k \in Keys(modB) :
          k \notin doneAdd /\ prior[k] # NoDoc /\ coll[k] # NoDoc /\ idx[k] = NoDoc
====
